---- MODULE Spec2Model ----
(***************************************************************************)
(* botdojo-rpc: the RPC engine of src/src/index.ts.                        *)
(*                                                                         *)
(* One RPCConnection (endpoint Me) over an opaque transport.  JavaScript   *)
(* values are tagged records; property paths, request ids and function     *)
(* names are strings, built by concatenation as the code builds them.      *)
(***************************************************************************)
EXTENDS Integers, Sequences, FiniteSets, Bags, TLC

(***************************************************************************)
(* Bounds of the model.                                                    *)
(***************************************************************************)
MaxCalls == 1
MaxInbound == 2

(***************************************************************************)
(* JavaScript values.                                                      *)
(***************************************************************************)
Undef == [t |-> "undef"]
Null == [t |-> "null"]
Prim(s) == [t |-> "prim", v |-> s]
\* a live function, named k
Fn(k) == [t |-> "fn", v |-> k]
Arr(elems) == [t |-> "arr", e |-> elems]
\* an object: its own properties as a sequence of <<name, value>> pairs
Obj(props) == [t |-> "obj", p |-> props]
\* a thrown JavaScript Error carrying a message
JsError(m) == [t |-> "jserror", v |-> m]
\* the async stub getReceivedProxyObject puts in place of a token
Stub(dest, path) == [t |-> "stub", dest |-> dest, path |-> path]

\* the falsy primitives: "", 0, false, NaN
FalsyPrims == {"", "0", "false", "NaN"}
Falsy(x) == x.t \in {"undef", "null"} \/ (x.t = "prim" /\ x.v \in FalsyPrims)

HasProp(o, n) == o.t = "obj" /\ \E i \in 1..Len(o.p) : o.p[i][1] = n
GetProp(o, n) ==
  IF HasProp(o, n)
    THEN o.p[CHOOSE i \in 1..Len(o.p) :
                o.p[i][1] = n /\ \A j \in (i+1)..Len(o.p) : o.p[j][1] # n][2]
    ELSE Undef

\* typeof x == "object" (true of null, arrays and objects)
TypeofObject(x) == x.t \in {"null", "arr", "obj"}

\* array index i (0-based) as the string the code concatenates
IndexStr(i) == ToString(i)

(***************************************************************************)
(* generateUUID: identifiers are unique; the n-th one drawn on behalf of   *)
(* owner (a sendRequest call, the handling of an inbound request).         *)
(***************************************************************************)
generateUUID(owner, n) == owner \o "-" \o ToString(n)

(***************************************************************************)
(* RPCMessageError                                                         *)
(***************************************************************************)
MessageErrorTag == "MessageError"

\* the message the constructor derives from its argument
ErrorMessageOf(error) ==
  IF error.t = "prim" THEN error.v
  ELSE IF error.t = "jserror" THEN error.v
  ELSE IF error.t = "obj" /\ ~Falsy(GetProp(error, "message"))
         /\ GetProp(error, "message").t = "prim"
    THEN GetProp(error, "message").v
  ELSE "[object Object]"

RPCMessageError(error) ==
  Obj(<< <<"_type", Prim(MessageErrorTag)>>,
         <<"error", error>>,
         <<"message", Prim(ErrorMessageOf(error))>> >>)

\* x?._type == "MessageError"
IsMessageError(x) ==
  x.t = "obj" /\ GetProp(x, "_type") = Prim(MessageErrorTag)

(***************************************************************************)
(* getPropertyNames: own property names, the universal object-protocol     *)
(* members dropped, sorted.                                                *)
(***************************************************************************)
Ignores ==
  {"__defineGetter__", "__defineSetter__", "__lookupGetter__",
   "__lookupSetter__", "__proto__", "constructor", "hasOwnProperty",
   "isPrototypeOf", "propertyIsEnumerable", "toLocaleString", "toString",
   "valueOf"}

\* the property names of the model in the order Array.prototype.sort gives
NameOrder ==
  <<"___function", "_type", "a", "a.b", "b", "cb", "error", "message",
    "toString", "value">>
Rank(n) == CHOOSE i \in 1..Len(NameOrder) : NameOrder[i] = n

RECURSIVE SortedNames(_)
SortedNames(S) ==
  IF S = {} THEN <<>>
  ELSE LET m == CHOOSE n \in S : \A o \in S : Rank(n) <= Rank(o)
       IN <<m>> \o SortedNames(S \ {m})

getPropertyNames(o) ==
  IF o.t # "obj" THEN <<>>
  ELSE SortedNames({o.p[i][1] : i \in 1..Len(o.p)} \ Ignores)

(***************************************************************************)
(* The callback registry: a map from string keys (request ids, token       *)
(* paths, handler names) to entries.                                       *)
(***************************************************************************)
EmptyMap == [k \in {} |-> Undef]
MapSet(m, k, e) == [x \in (DOMAIN m) \cup {k} |-> IF x = k THEN e ELSE m[x]]
MapDelete(m, k) == [x \in (DOMAIN m) \ {k} |-> m[x]]
MapHas(m, k) == k \in DOMAIN m

\* a registered function: CallbackHandlerMethods {source, func}
FuncEntry(owner, f) == [kind |-> "func", source |-> owner, func |-> f]
\* the completion callback sendRequest registers for call c
PendingEntry(c) == [kind |-> "pending", call |-> c]

IsFunction(x) == x.t \in {"fn", "stub"}

\* the depth up to which getRequestProxyObject recurses into properties
DepthLimit == 99

RootFunctionError == JsError("root can't be a function")

(***************************************************************************)
(* getRequestProxyObject: outbound marshaling.  The result is the mirror   *)
(* (or the Error thrown) together with the registry as the call left it.   *)
(***************************************************************************)
Token(path) == Obj(<< <<"___function", Prim(path)>> >>)

RECURSIVE getRequestProxyObject(_, _, _, _)
RECURSIVE MarshalOutElems(_, _, _, _, _, _)
RECURSIVE MarshalOutProps(_, _, _, _, _, _, _)

\* source.forEach over the elements of an array, from index i (1-based)
MarshalOutElems(id, cbs, elems, i, depth, acc) ==
  IF i > Len(elems) THEN [ok |-> TRUE, v |-> Arr(acc), cb |-> cbs]
  ELSE LET r == getRequestProxyObject(id \o "." \o IndexStr(i - 1), cbs,
                                      elems[i], depth + 1)
       IN IF ~r.ok THEN r
          ELSE MarshalOutElems(id, r.cb, elems, i + 1, depth, Append(acc, r.v))

\* getPropertyNames(source).forEach, from the i-th name
MarshalOutProps(id, cbs, source, names, i, depth, acc) ==
  IF i > Len(names)
    THEN [ok |-> TRUE, v |-> IF acc = <<>> THEN Null ELSE Obj(acc), cb |-> cbs]
  ELSE LET n == names[i]
           prop == GetProp(source, n)
           path == id \o "." \o n
       IN IF IsFunction(prop)
            THEN MarshalOutProps(id, MapSet(cbs, path, FuncEntry(source, prop)),
                                 source, names, i + 1, depth,
                                 Append(acc, <<n, Token(path)>>))
          ELSE IF TypeofObject(prop)
            THEN IF depth <= DepthLimit
                   THEN LET r == getRequestProxyObject(path, cbs, prop, depth + 1)
                        IN IF ~r.ok THEN r
                           ELSE MarshalOutProps(id, r.cb, source, names, i + 1,
                                                depth, Append(acc, <<n, r.v>>))
                   ELSE MarshalOutProps(id, cbs, source, names, i + 1, depth,
                                        Append(acc, <<n, prop>>))
          ELSE MarshalOutProps(id, cbs, source, names, i + 1, depth,
                               Append(acc, <<n, prop>>))

getRequestProxyObject(id, cbs, source, depth) ==
  IF source.t = "arr" THEN MarshalOutElems(id, cbs, source.e, 1, depth, <<>>)
  ELSE IF TypeofObject(source)
    THEN MarshalOutProps(id, cbs, source, getPropertyNames(source), 1, depth, <<>>)
  ELSE IF IsFunction(source)
    THEN [ok |-> FALSE, v |-> RootFunctionError, cb |-> cbs]
  ELSE [ok |-> TRUE, v |-> source, cb |-> cbs]

(***************************************************************************)
(* getReceivedProxyObject: inbound marshaling.  destination is the peer    *)
(* the stubs call back.  The registry is passed along but never touched.   *)
(***************************************************************************)
RECURSIVE getReceivedProxyObject(_, _)
RECURSIVE MarshalInElems(_, _, _, _)
RECURSIVE MarshalInProps(_, _, _, _, _)

MarshalInElems(destination, elems, i, acc) ==
  IF i > Len(elems) THEN Arr(acc)
  ELSE MarshalInElems(destination, elems, i + 1,
                      Append(acc, getReceivedProxyObject(destination, elems[i])))

MarshalInProps(destination, source, names, i, acc) ==
  IF i > Len(names) THEN Obj(acc)
  ELSE LET n == names[i]
           prop == GetProp(source, n)
           fnRef == GetProp(prop, "___function")
       IN IF Falsy(prop)
            THEN MarshalInProps(destination, source, names, i + 1,
                                Append(acc, <<n, prop>>))
          ELSE IF ~Falsy(fnRef)
            THEN MarshalInProps(destination, source, names, i + 1,
                                Append(acc, <<n, Stub(destination, fnRef)>>))
          ELSE IF TypeofObject(prop)
            THEN MarshalInProps(destination, source, names, i + 1,
                   Append(acc, <<n, getReceivedProxyObject(destination, prop)>>))
          ELSE MarshalInProps(destination, source, names, i + 1,
                              Append(acc, <<n, prop>>))

getReceivedProxyObject(destination, source) ==
  IF source.t = "arr" THEN MarshalInElems(destination, source.e, 1, <<>>)
  ELSE IF TypeofObject(source)
    THEN MarshalInProps(destination, source, getPropertyNames(source), 1, <<>>)
  ELSE source


(***************************************************************************)
(* RPCMessage                                                              *)
(***************************************************************************)
Wildcard == "*"
SameEndpointError == JsError("source and destination can't be the same")

\* mutant: the constructor without its source/destination check
RPCMessageNewUnchecked(source, destination, direction, functionName, data, uid) ==
  [ok |-> TRUE,
   v |-> [id |-> uid, source |-> source, destination |-> destination,
          direction |-> direction, functionName |-> functionName,
          data |-> data, host_id |-> "notset"]]

\* new RPCMessage(...): the message, or the Error the constructor throws;
\* uid is the identifier generateUUID hands the constructor
RPCMessageNew(source, destination, direction, functionName, data, uid) ==
  IF source = destination
    THEN [ok |-> FALSE, v |-> SameEndpointError]
    ELSE [ok |-> TRUE,
          v |-> [id |-> uid, source |-> source, destination |-> destination,
                 direction |-> direction, functionName |-> functionName,
                 data |-> data, host_id |-> "notset"]]

RPCMessageRequest(source, destination, functionName, data, uid) ==
  RPCMessageNew(source, destination, "request", functionName, data, uid)

\* mutant: response() that keeps the identifier the constructor generated
RPCMessageResponseFreshId(msg, data, uid) ==
  RPCMessageNew(msg.destination, msg.source, "response", msg.functionName,
                data, uid)

RPCMessageResponse(msg, data, uid) ==
  LET newMessage == RPCMessageNew(msg.destination, msg.source, "response",
                                  msg.functionName, data, uid)
  IN IF newMessage.ok
       THEN [ok |-> TRUE, v |-> [newMessage.v EXCEPT !.id = msg.id]]
       ELSE newMessage

(***************************************************************************)
(* The connection and its environment.                                     *)
(***************************************************************************)
\* this endpoint's clientId, the peer, and an endpoint that is neither
Me == "A"
Peer == "B"
Other == "C"

Calls == 1..MaxCalls

VARIABLES
  callbacks,    \* RPCConnection.callbacks
  closed,       \* close() has run: sender.onMessage is unset
  onMessage,    \* the default handler given at construction
  calls,        \* per sendRequest call: its closure and its promise
  sent,         \* the bag of messages handed to sender.sendMessage
  reqs,         \* the inbound requests dispatched to a handler, in order
  nIn,          \* how many inbound messages the transport has delivered
  nForeign,     \* how many of them were addressed to another endpoint
  warns,        \* console.warn lines of incommingMessage, by kind
  invocations,  \* how many times a user handler has been invoked
  probe         \* the last RPCMessage construction made on its own

\* the state of the RPCConnection under study and of the RPCMessage probes
rpcVars == <<callbacks, closed, onMessage, calls, sent, reqs, nIn, nForeign,
             warns, invocations, probe>>

VARIABLES
  mar           \* the last run of the proxy marshaler made on its own

marVars == <<mar>>

VARIABLES
  connection,     \* ChannelBroadcaster.connection, and how far its setup got
  buffer,         \* ChannelBroadcaster.buffer
  connecting,     \* ChannelBroadcaster.connecting
  inflightCount,  \* ChannelBroadcaster.inflightCount
  emits,          \* the emitToAll calls made so far, in order: where each is
  handed,           \* the payloads handed to connection.sendMessage, in order
  closeCall       \* the close(timeoutMs) call: where it is

bcVars == <<connection, buffer, connecting, inflightCount, emits, handed,
            closeCall>>

VARIABLES
  aborting,          \* AbortHandler.aborting, per node
  bargingIn,         \* AbortHandler.bargingIn, per node
  abortListeners,    \* AbortHandler.abortListeners, per node
  bargeInListeners,  \* AbortHandler.bargeInListeners, per node
  linked,            \* init() of each node with a parent: whether it has run
  ops,               \* the abort and barge-in operations started, in order
  regs,              \* the listener registrations called, in order
  invoked            \* how often each listener function has been called

ahVars == <<aborting, bargingIn, abortListeners, bargeInListeners, linked,
            ops, regs, invoked>>

VARIABLES
  hydrating,           \* AbortHandler.hydrating, per node
  hydrationListeners   \* AbortHandler.hydrationListeners, per node, in
                       \* insertion order

hyVars == <<hydrating, hydrationListeners>>

VARIABLES
  rq            \* the AbortRequestor: its client, _resolve, and its sends

rqVars == <<rq>>

VARIABLES
  br            \* a PostMessageBridge: its config and what it last did

brVars == <<br>>

VARIABLES
  trav          \* a run of getRequestProxyObject over a graph of objects

travVars == <<trav>>

extVars == <<hyVars, rqVars, brVars, travVars>>

nonRpc == <<marVars, bcVars, ahVars, extVars>>

vars == <<rpcVars, nonRpc>>

\* the promise sendRequest returns
Pending == [k |-> "pending"]
Resolved(x) == [k |-> "resolved", v |-> x]
Rejected(x) == [k |-> "rejected", v |-> x]

\* resolve()/reject() on a promise: only the first call settles it
Settle(outcome, result) == IF outcome = Pending THEN result ELSE outcome

\* A call: the closure of sendRequest (id, dest, fn, responseSent), its
\* timer, the promise of sendMessage, and the promise handed to the caller
\* (outcome).  The rest is history kept for the properties: settleCalls
\* counts the resolve/reject calls made by the completion callback and the
\* timer, warned the "Response already sent" warnings, nResp the responses
\* dispatched under the call's id, firstResp the data of the first of them,
\* and by tells which code path settled the promise.
IdleCall ==
  [st |-> "idle", id |-> "", dest |-> "", fn |-> "", responseSent |-> FALSE,
   timer |-> "none", send |-> "none", outcome |-> Pending, settleCalls |-> 0,
   nResp |-> 0, warned |-> 0, firstResp |-> Undef, by |-> ""]

\* history: who settled the promise, noted on the step that settles it
MarkBy(before, after, who) ==
  IF before.outcome = Pending /\ after.outcome # Pending
    THEN [after EXCEPT !.by = who]
    ELSE after

NoProbe == [op |-> "none"]
\* the coordinator nodes: each AbortHandler but the first is constructed
\* with the one before it as its parentAbortHandler
Nodes == {"parent", "child", "grandchild"}
\* the listener functions user code registers
ListenerFuncs == {"f", "g"}

\* ChannelBroadcaster as constructed: no connection, no close() running
NoConnection == [made |-> FALSE, init |-> "no", closed |-> FALSE]
NoClose == [pc |-> "idle", drained |-> FALSE, hadConnection |-> FALSE]

\* AbortRequestor as constructed: not initialized, _resolve unset, no send
NoRequestor ==
  [hasInit |-> FALSE, resolve |-> 0, closed |-> FALSE, sends |-> <<>>,
   delivered |-> 0, inits |-> 0]
\* no PostMessageBridge call made yet
NoBridge ==
  [op |-> "none", cfg |-> [x |-> 0], event |-> [x |-> 0], serialized |-> <<>>,
   delivered |-> FALSE, origin |-> <<>>, posted |-> <<>>, onError |-> FALSE]
\* no run of getRequestProxyObject over a graph started yet
NoTraversal ==
  [st |-> "idle", heap |-> <<>>, stack |-> <<>>, registered |-> {}]

NoStubCall == [made |-> FALSE]
NoMarshal ==
  [op |-> "none", depth |-> 0, maxDepth |-> 0, id |-> "", data |-> Undef,
   out |-> [ok |-> TRUE, v |-> Undef, cb |-> EmptyMap], in |-> Undef,
   call |-> NoStubCall]

Init ==
  /\ callbacks = EmptyMap
  /\ closed = FALSE
  /\ onMessage \in {"default", "custom"}
  /\ calls = [c \in Calls |-> IdleCall]
  /\ sent = EmptyBag
  /\ reqs = <<>>
  /\ nIn = 0
  /\ nForeign = 0
  /\ warns = [ignore |-> 0, nocb |-> 0]
  /\ invocations = 0
  /\ probe = NoProbe
  /\ mar = NoMarshal
  /\ connection = NoConnection
  /\ buffer = <<>>
  /\ connecting = FALSE
  /\ inflightCount = 0
  /\ emits = <<>>
  /\ handed = <<>>
  /\ closeCall = NoClose
  /\ aborting = [n \in Nodes |-> FALSE]
  /\ bargingIn = [n \in Nodes |-> FALSE]
  /\ abortListeners = [n \in Nodes |-> {}]
  /\ bargeInListeners = [n \in Nodes |-> {}]
  /\ linked = [c \in Nodes \ {"parent"} |-> "no"]
  /\ ops = <<>>
  /\ regs = <<>>
  /\ invoked = [f \in ListenerFuncs |-> 0]
  /\ hydrating = [n \in Nodes |-> FALSE]
  /\ hydrationListeners = [n \in Nodes |-> <<>>]
  /\ rq = NoRequestor
  /\ br = NoBridge
  /\ trav = NoTraversal

(***************************************************************************)
(* sendRequest                                                             *)
(***************************************************************************)
TimeoutText(destinationId, functionName) ==
  "Timeout waiting for response from " \o destinationId \o " for "
    \o functionName

\* mutant: the completion callback without its responseSent guard
CompletionCallbackUnguarded(cl, arg) ==
  [cl EXCEPT !.responseSent = TRUE,
             !.settleCalls = @ + 1,
             !.outcome = Settle(@, IF IsMessageError(arg)
                                     THEN Rejected(arg)
                                     ELSE Resolved(arg))]

\* mutant: the completion callback without the test for an error object
CompletionCallbackAlwaysResolves(cl, arg) ==
  IF cl.responseSent
    THEN [cl EXCEPT !.warned = @ + 1]
    ELSE [cl EXCEPT !.responseSent = TRUE,
                    !.settleCalls = @ + 1,
                    !.outcome = Settle(@, Resolved(arg))]

\* the completion callback registered under the request id, applied to
\* args[0]; cl is the call's closure
CompletionCallback(cl, arg) ==
  IF cl.responseSent
    THEN [cl EXCEPT !.warned = @ + 1]
    ELSE [cl EXCEPT !.responseSent = TRUE,
                    !.settleCalls = @ + 1,
                    !.outcome = Settle(@, IF IsMessageError(arg)
                                            THEN Rejected(arg)
                                            ELSE Resolved(arg))]

\* mutant: a timer callback that marks the call answered but rejects nothing
TimeoutCallbackSilent(cl) ==
  IF ~cl.responseSent
    THEN [cl EXCEPT !.timer = "fired", !.responseSent = TRUE]
    ELSE [cl EXCEPT !.timer = "fired"]

\* mutant: a timer callback that rejects with a plain Error
TimeoutCallbackPlainError(cl) ==
  IF ~cl.responseSent
    THEN [cl EXCEPT !.timer = "fired",
                    !.responseSent = TRUE,
                    !.settleCalls = @ + 1,
                    !.outcome = Settle(@, Rejected(JsError(
                                   TimeoutText(cl.dest, cl.fn))))]
    ELSE [cl EXCEPT !.timer = "fired"]

\* the setTimeout callback
TimeoutCallback(cl) ==
  IF ~cl.responseSent
    THEN [cl EXCEPT !.timer = "fired",
                    !.responseSent = TRUE,
                    !.settleCalls = @ + 1,
                    !.outcome = Settle(@, Rejected(RPCMessageError(
                                   Prim(TimeoutText(cl.dest, cl.fn)))))]
    ELSE [cl EXCEPT !.timer = "fired"]

\* the arguments the callers of the model pass to sendRequest
RequestData ==
  {Prim("x"), Arr(<<Fn("f")>>), Arr(<<Obj(<< <<"cb", Fn("f")>> >>)>>)}
RequestFunctionName == "remoteFn"

\* the synchronous part of sendRequest, up to the await of sendMessage
SendRequest(c, destinationId, functionName, data) ==
  /\ calls[c].st = "idle"
  /\ \A d \in Calls : d < c => calls[d].st # "idle"
  /\ LET sendData == IF data.t = "arr" THEN data ELSE Arr(<<data>>)
         owner == "c" \o ToString(c)
         requestId == generateUUID(owner, 1)
         registered == MapSet(callbacks, requestId, PendingEntry(c))
         proxy == getRequestProxyObject(generateUUID(owner, 2), registered,
                                        sendData, 0)
         msg == RPCMessageNew(Me, destinationId, "request", functionName,
                              proxy.v, generateUUID(owner, 3))
         cl == [calls[c] EXCEPT !.st = "issued", !.id = requestId,
                                !.dest = destinationId, !.fn = functionName]
     IN /\ callbacks' = proxy.cb
        /\ IF ~proxy.ok
             THEN /\ calls' = [calls EXCEPT ![c] = MarkBy(cl,
                       [cl EXCEPT !.outcome = Settle(@, Rejected(proxy.v))],
                       "marshal")]
                  /\ sent' = sent
             ELSE IF ~msg.ok
                    THEN /\ calls' = [calls EXCEPT ![c] = MarkBy(cl,
                              [cl EXCEPT !.timer = "armed",
                                         !.outcome = Settle(@, Rejected(msg.v))],
                              "constructor")]
                         /\ sent' = sent
                    ELSE /\ calls' = [calls EXCEPT ![c] =
                              [cl EXCEPT !.timer = "armed",
                                         !.send = "awaiting"]]
                         /\ sent' = sent (+) SetToBag({[msg.v EXCEPT !.id = requestId]})
  /\ UNCHANGED <<closed, onMessage, reqs, nIn, nForeign, warns, invocations, probe, nonRpc>>

\* the promise of sender.sendMessage rejects: the catch block runs
SendFailure == JsError("send failed")
SendMessageFails(c) ==
  /\ calls[c].send = "awaiting"
  /\ calls' = [calls EXCEPT ![c] = MarkBy(@,
       [@ EXCEPT !.send = "failed",
                 !.outcome = Settle(@, Rejected(SendFailure))], "send")]
  /\ UNCHANGED <<callbacks, closed, onMessage, sent, reqs, nIn, nForeign, warns,
                 invocations, probe, nonRpc>>

\* the timer set by sendRequest expires
TimerFires(c) ==
  /\ calls[c].timer = "armed"
  /\ calls' = [calls EXCEPT ![c] = MarkBy(@, TimeoutCallback(@), "timer")]
  /\ UNCHANGED <<callbacks, closed, onMessage, sent, reqs, nIn, nForeign, warns,
                 invocations, probe, nonRpc>>

(***************************************************************************)
(* close                                                                   *)
(***************************************************************************)
\* mutant: a close() that also cancels the timers of the pending calls
CloseCancelsTimers ==
  /\ ~closed
  /\ callbacks' = EmptyMap
  /\ closed' = TRUE
  /\ calls' = [c \in Calls |->
                 IF calls[c].timer = "armed"
                   THEN [calls[c] EXCEPT !.timer = "none"]
                   ELSE calls[c]]
  /\ UNCHANGED <<onMessage, sent, reqs, nIn, nForeign, warns, invocations, probe, nonRpc>>

Close ==
  /\ ~closed
  /\ callbacks' = EmptyMap
  /\ closed' = TRUE
  /\ UNCHANGED <<onMessage, calls, sent, reqs, nIn, nForeign, warns, invocations,
                 probe, nonRpc>>


(***************************************************************************)
(* incommingMessage                                                        *)
(***************************************************************************)
\* what the handlers of the model return or resolve with
HandlerResults == {Prim("r"), Fn("g")}
\* what an invoked function does: return a value, throw, return a promise
Behaviours == {"ret", "throw", "promise"}
HandlerFailure == JsError("handler failed")
\* mutant: a default handler that returns the text, not an error object
UnknownFunctionText(functionName) ==
  Prim("Unknown function " \o functionName)

\* the default onMessage of the constructor
UnknownFunction(functionName) ==
  RPCMessageError(Prim("Unknown function " \o functionName))

\* this.sender.sendMessage(RPCMessage.response(msg, data)); when the
\* construction throws nothing reaches the transport
SendResponse(log, msg, data, uid) ==
  LET response == RPCMessageResponse(msg, data, uid)
  IN IF response.ok THEN log (+) SetToBag({response.v}) ELSE log

\* the .catch branch: the failure wrapped and sent back
SendErrorResponse(log, msg, e, uid) ==
  SendResponse(log, msg, RPCMessageError(e), uid)

\* an inbound request has been handed to a handler
Dispatched(msg, via, st, k) == [msg |-> msg, via |-> via, st |-> st, k |-> k]

\* cb.func.apply(cb.source, msg.data): args[0]
FirstArg(data) == IF data.t = "arr" /\ Len(data.e) > 0 THEN data.e[1] ELSE Undef

\* the branch taken for direction == "request"; how is what the function
\* found in the registry does when invoked and result what it returns
RequestBranch(msg, how, result) ==
  IF MapHas(callbacks, msg.functionName)
    THEN LET cb == callbacks[msg.functionName]
         IN IF cb.kind = "pending"
              THEN \* the completion callback returns undefined
                   /\ calls' = [calls EXCEPT ![cb.call] = MarkBy(@,
                                   CompletionCallback(@, FirstArg(msg.data)),
                                   "request")]
                   /\ sent' = SendResponse(sent, msg, Undef, generateUUID(msg.id, 2))
                   /\ callbacks' = callbacks
                   /\ reqs' = Append(reqs, Dispatched(msg, "completion", "returned", ""))
                   /\ invocations' = invocations
            ELSE IF how = "ret"
              THEN LET proxy == getRequestProxyObject(generateUUID(msg.id, 1),
                                                      callbacks, result, 0)
                   IN /\ callbacks' = proxy.cb
                      /\ invocations' = invocations + 1
                      /\ calls' = calls
                      /\ IF proxy.ok
                           THEN /\ sent' = SendResponse(sent, msg, proxy.v,
                                                        generateUUID(msg.id, 2))
                                /\ reqs' = Append(reqs,
                                     Dispatched(msg, "callback", "returned", "ret"))
                           ELSE /\ sent' = sent
                                \* marshaling the result threw
                                /\ reqs' = Append(reqs,
                                     Dispatched(msg, "callback", "unmarshalable",
                                                "ret"))
            ELSE IF how = "throw"
              THEN \* the exception leaves incommingMessage
                   /\ reqs' = Append(reqs, Dispatched(msg, "callback", "threw", "throw"))
                   /\ invocations' = invocations + 1
                   /\ UNCHANGED <<callbacks, calls, sent>>
            ELSE \* the function returned a promise
                   /\ reqs' = Append(reqs,
                        Dispatched(msg, "callback", "running", "promise"))
                   /\ invocations' = invocations + 1
                   /\ UNCHANGED <<callbacks, calls, sent>>
    ELSE \* this.onMessage(msg)
         /\ reqs' = Append(reqs, Dispatched(msg, "onMessage", "running", onMessage))
         /\ invocations' = invocations + 1
         /\ UNCHANGED <<callbacks, calls, sent>>

\* history: the responses dispatched under each call's id; wire is the
\* message as the transport delivered it
CountResponse(cs, wire) ==
  [c \in Calls |->
     IF cs[c].st = "issued" /\ cs[c].id = wire.id
       THEN [cs[c] EXCEPT !.nResp = @ + 1,
                          !.firstResp = IF cs[c].nResp = 0 THEN wire.data ELSE @]
       ELSE cs[c]]

\* the branch taken for direction == "response"
ResponseBranch(msg, wire) ==
  /\ callbacks' = MapDelete(callbacks, msg.id)
  /\ IF MapHas(callbacks, msg.id)
       THEN LET cb == callbacks[msg.id]
            IN IF cb.kind = "pending"
                 THEN /\ calls' = CountResponse(
                           [calls EXCEPT ![cb.call] = MarkBy(@,
                              CompletionCallback(@, msg.data), "response")],
                           wire)
                      /\ invocations' = invocations
                 ELSE /\ calls' = CountResponse(calls, wire)
                      /\ invocations' = invocations + 1
       ELSE /\ calls' = CountResponse(calls, wire)
            /\ invocations' = invocations
  /\ warns' = IF MapHas(callbacks, msg.id) THEN warns
              ELSE [warns EXCEPT !.nocb = @ + 1]
  /\ UNCHANGED <<sent, reqs>>

\* the messages the transport can deliver in the current state
\* the argument lists of inbound requests: a value and an object whose
\* function the sender replaced by a token
InboundArgs ==
  {Arr(<<Prim("x"), Obj(<< <<"cb", Token("p0.0.cb")>> >>)>>)}
RemoteError == RPCMessageError(Prim("remote failure"))
ResponseData ==
  {Prim("ok"), RemoteError, Obj(<< <<"cb", Token("p0.0.cb")>> >>)}
IssuedIds == {calls[c].id : c \in {d \in Calls : calls[d].st = "issued"}}
InboundMessages ==
  [id : {"p" \o ToString(nIn + 1)}, source : {Peer},
   destination : {Me, Wildcard, Other}, direction : {"request"},
   functionName : (DOMAIN callbacks) \cup {"unknownFn"},
   data : InboundArgs, host_id : {"notset"}]
  \cup
  [id : IssuedIds \cup (DOMAIN callbacks) \cup {"stale"}, source : {Peer},
   destination : {Me, Wildcard, Other}, direction : {"response"},
   functionName : {RequestFunctionName},
   data : ResponseData, host_id : {"notset"}]

\* mutant: dispatch without the destination test
ForMeAny(msg) == msg.destination \in {Me, Wildcard, Other}

ForMe(msg) == msg.destination = Me \/ msg.destination = Wildcard

incommingMessage(msg, how, result) ==
  IF ForMe(msg)
    THEN LET received == [msg EXCEPT !.data =
                            getReceivedProxyObject(msg.source, msg.data)]
         IN IF msg.direction = "request"
              THEN RequestBranch(received, how, result) /\ warns' = warns
              ELSE ResponseBranch(received, msg)
    ELSE /\ warns' = [warns EXCEPT !.ignore = @ + 1]
         /\ UNCHANGED <<callbacks, calls, sent, reqs, invocations>>

\* the transport delivers msg to sender.onMessage
Deliver(msg, how, result) ==
  /\ ~closed
  /\ nIn < MaxInbound
  /\ nIn' = nIn + 1
  /\ nForeign' = IF msg.destination \in {Me, Wildcard} THEN nForeign
                 ELSE nForeign + 1
  /\ incommingMessage(msg, how, result)
  /\ UNCHANGED <<closed, onMessage, probe, nonRpc>>


\* a promise returned by a handler resolves: the .then branch, and the
\* .catch branch when marshaling the result throws
HandlerResolves(i, result) ==
  /\ i \in 1..Len(reqs)
  /\ reqs[i].st = "running"
  /\ reqs[i].k \in {"promise", "custom", "default"}
  /\ reqs[i].k = "default" => result = UnknownFunction(reqs[i].msg.functionName)
  /\ reqs[i].k # "default" => result \in HandlerResults
  /\ LET proxy == getRequestProxyObject(generateUUID(reqs[i].msg.id, 1),
                                        callbacks, result, 0)
     IN /\ callbacks' = proxy.cb
        /\ sent' = IF proxy.ok
                     THEN SendResponse(sent, reqs[i].msg, proxy.v,
                                       generateUUID(reqs[i].msg.id, 2))
                     ELSE SendErrorResponse(sent, reqs[i].msg, proxy.v,
                                            generateUUID(reqs[i].msg.id, 2))
  /\ reqs' = [reqs EXCEPT ![i].st = "resolved"]
  /\ UNCHANGED <<closed, onMessage, calls, nIn, nForeign, warns, invocations, probe, nonRpc>>

\* a promise returned by a handler rejects: the .catch branch
HandlerRejects(i) ==
  /\ i \in 1..Len(reqs)
  /\ reqs[i].st = "running"
  /\ reqs[i].k \in {"promise", "custom"}
  /\ sent' = SendErrorResponse(sent, reqs[i].msg, HandlerFailure,
                               generateUUID(reqs[i].msg.id, 1))
  /\ reqs' = [reqs EXCEPT ![i].st = "rejected"]
  /\ UNCHANGED <<callbacks, closed, onMessage, calls, nIn, nForeign, warns, invocations,
                 probe, nonRpc>>

(***************************************************************************)
(* Handlers registered by name: connection.callbacks.set(name, {...})      *)
(***************************************************************************)
HandlerName == "myFunction"
RegisterHandler ==
  /\ ~MapHas(callbacks, HandlerName)
  /\ callbacks' = MapSet(callbacks, HandlerName, FuncEntry(Undef, Fn("h")))
  /\ UNCHANGED <<closed, onMessage, calls, sent, reqs, nIn, nForeign, warns,
                 invocations, probe, nonRpc>>

(***************************************************************************)
(* The connection's specification.                                         *)
(***************************************************************************)
Destinations == {Peer, Me}

DoSendRequest ==
  \E c \in Calls, d \in Destinations, data \in RequestData :
    SendRequest(c, d, RequestFunctionName, data)
DoSendMessageFails == \E c \in Calls : SendMessageFails(c)
DoTimerFires == \E c \in Calls : TimerFires(c)
DoDeliver ==
  \E msg \in InboundMessages, how \in Behaviours, result \in HandlerResults :
    Deliver(msg, how, result)
DoHandlerResolves ==
  \E i \in 1..Len(reqs),
     result \in HandlerResults \cup {UnknownFunction("unknownFn")} :
    HandlerResolves(i, result)
DoHandlerRejects == \E i \in 1..Len(reqs) : HandlerRejects(i)

Next ==
  \/ DoSendRequest
  \/ DoSendMessageFails
  \/ DoTimerFires
  \/ DoDeliver
  \/ DoHandlerResolves
  \/ DoHandlerRejects
  \/ RegisterHandler
  \/ Close

Spec == Init /\ [][Next]_vars

\* timers run: a timer that is set expires
FairSpec == Spec /\ \A c \in Calls : WF_vars(TimerFires(c))


(***************************************************************************)
(* RPCMessage on its own: the constructor and the two static factories     *)
(* applied to arguments drawn from bounded sets.                           *)
(***************************************************************************)
MaxProbes == 2

Endpoints == {Me, Peer, Other, Wildcard}
ProbeData == {Prim("x"), Null}
ProbeFunctionName == "f"
\* the messages response() is applied to: any object with these fields
ProbeMessages ==
  [id : {"q1"}, source : Endpoints, destination : Endpoints,
   direction : {"request"}, functionName : {ProbeFunctionName},
   data : ProbeData, host_id : {"notset"}]

Probed(op, n, req, source, destination, res) ==
  [op |-> op, n |-> n, req |-> req, source |-> source,
   destination |-> destination, res |-> res]
ProbeCount == IF probe.op = "none" THEN 0 ELSE probe.n
ProbeUid == generateUUID("m", ProbeCount + 1)

ProbeNew(source, destination, direction, data) ==
  /\ ProbeCount < MaxProbes
  /\ probe' = Probed("new", ProbeCount + 1, Null, source, destination,
                     RPCMessageNew(source, destination, direction,
                                   ProbeFunctionName, data, ProbeUid))
  /\ UNCHANGED <<callbacks, closed, onMessage, calls, sent, reqs, nIn, nForeign, warns,
                 invocations, nonRpc>>

ProbeRequest(source, destination, data) ==
  /\ ProbeCount < MaxProbes
  /\ probe' = Probed("request", ProbeCount + 1, Null, source, destination,
                     RPCMessageRequest(source, destination, ProbeFunctionName,
                                       data, ProbeUid))
  /\ UNCHANGED <<callbacks, closed, onMessage, calls, sent, reqs, nIn, nForeign, warns,
                 invocations, nonRpc>>

\* response() applied to req: its constructor call swaps the endpoints
ProbeResponse(req, data) ==
  /\ ProbeCount < MaxProbes
  /\ probe' = Probed("response", ProbeCount + 1, req, req.destination,
                     req.source, RPCMessageResponse(req, data, ProbeUid))
  /\ UNCHANGED <<callbacks, closed, onMessage, calls, sent, reqs, nIn, nForeign, warns,
                 invocations, nonRpc>>

DoProbeNew ==
  \E s \in Endpoints, d \in Endpoints, dir \in {"request", "response"},
     data \in ProbeData : ProbeNew(s, d, dir, data)
DoProbeRequest ==
  \E s \in Endpoints, d \in Endpoints, data \in ProbeData :
    ProbeRequest(s, d, data)
\* applied to a drawn message, or to the message the last construction made
DoProbeResponse ==
  \E req \in ProbeMessages
       \cup (IF probe.op # "none" /\ probe.res.ok THEN {probe.res.v} ELSE {}),
     data \in ProbeData : ProbeResponse(req, data)

MsgNext ==
  \/ DoProbeNew
  \/ DoProbeRequest
  \/ DoProbeResponse

MsgSpec == Init /\ [][MsgNext]_vars


(***************************************************************************)
(* The proxy marshaler on its own: Me marshals a payload outbound as       *)
(* sendRequest does, Peer marshals the mirror inbound as incommingMessage  *)
(* does, and invokes the stubs it finds; the nested request reaches the    *)
(* registry of Me.                                                         *)
(***************************************************************************)
\* ConectionOptions.maxDepth as constructed
DefaultMaxDepth == 18
\* the values of options.maxDepth the connection is configured with
MaxDepths == {1, 2, DefaultMaxDepth}

\* n objects nested in property a around an object holding a function
RECURSIVE Chain(_)
Chain(n) ==
  IF n = 0 THEN Obj(<< <<"cb", Fn("f")>> >>)
  ELSE Obj(<< <<"a", Chain(n - 1)>> >>)

Nestings == {1, 2, 3, 4}

\* the depth argument of getRequestProxyObject: 0 as the connection passes
\* it, or a depth near the default maxDepth or near the depth at which the
\* function stops recursing
StartDepths ==
  {0, DefaultMaxDepth - 1, DefaultMaxDepth, DepthLimit - 1, DepthLimit,
   DepthLimit + 1}

\* the payloads handed to sendRequest: acyclic object graphs, with and
\* without functions
MarshalData ==
  { Prim("x"),
    Obj(<< <<"cb", Fn("f")>> >>),
    Obj(<< <<"value", Prim("x")>>, <<"cb", Fn("f")>>, <<"b", Fn("g")>> >>),
    Obj(<< <<"a", Obj(<< <<"cb", Fn("f")>> >>)>>, <<"b", Fn("g")>> >>),
    Obj(<< <<"a", Arr(<< Obj(<< <<"cb", Fn("f")>> >>),
                         Obj(<< <<"cb", Fn("g")>> >>) >>)>> >>),
    Obj(<< <<"a", Obj(<< <<"b", Fn("f")>> >>)>>, <<"a.b", Fn("g")>> >>),
    Fn("f"),
    Null,
    Arr(<< Prim("x"), Null >>),
    Obj(<< <<"a", Obj(<< <<"value", Prim("x")>> >>)>>, <<"value", Null>> >>),
    Arr(<< Prim("x"), Fn("f") >>),
    Arr(<< Obj(<< <<"cb", Fn("f")>> >>), Obj(<< <<"cb", Fn("g")>> >>) >>) }
  \cup {Chain(n) : n \in Nestings}

\* let sendData = Array.isArray(data) ? data : [data]
SendData(data) == IF data.t = "arr" THEN data ELSE Arr(<<data>>)

\* the value found in v by following the keys of pos (property names, or
\* array indices as the strings the paths are built from)
RECURSIVE Sub(_, _)
Sub(v, pos) ==
  IF pos = <<>> THEN v
  ELSE IF v.t = "arr"
    THEN IF \E i \in 1..Len(v.e) : IndexStr(i - 1) = Head(pos)
           THEN Sub(v.e[CHOOSE i \in 1..Len(v.e) : IndexStr(i - 1) = Head(pos)],
                    Tail(pos))
           ELSE Undef
  ELSE IF HasProp(v, Head(pos)) THEN Sub(GetProp(v, Head(pos)), Tail(pos))
  ELSE Undef

\* the positions of v: the key sequences that lead to a value in it
RECURSIVE Positions(_)
Positions(v) ==
  {<<>>} \cup
  (IF v.t = "arr"
     THEN UNION {{<<IndexStr(i - 1)>> \o q : q \in Positions(v.e[i])} :
                 i \in 1..Len(v.e)}
   ELSE IF v.t = "obj"
     THEN UNION {{<<v.p[i][1]>> \o q : q \in Positions(v.p[i][2])} :
                 i \in 1..Len(v.p)}
   ELSE {})

\* getRequestProxyObject(id, sender, callbacks, sendData, depth, maxDepth)
\* as sendRequest calls it (depth 0, options.maxDepth), or with a depth of
\* the caller's choice
MarshalOut(data, depth, maxDepth) ==
  /\ mar.op = "none"
  /\ mar' = [op |-> "out", depth |-> depth, maxDepth |-> maxDepth,
             id |-> generateUUID("c1", 2), data |-> SendData(data),
             out |-> getRequestProxyObject(generateUUID("c1", 2), EmptyMap,
                                           SendData(data), depth),
             in |-> Undef, call |-> NoStubCall]
  /\ UNCHANGED <<rpcVars, bcVars, ahVars, extVars>>

\* incommingMessage at Peer, up to the inverse marshaling of msg.data;
\* msg.source is Me
MarshalIn ==
  /\ mar.op = "out"
  /\ mar.out.ok
  /\ mar' = [mar EXCEPT !.op = "in",
                        !.in = getReceivedProxyObject(Me, mar.out.v)]
  /\ UNCHANGED <<rpcVars, bcVars, ahVars, extVars>>

\* Peer invokes the stub at pos: connection.sendRequest(destination,
\* prop.___function, arr); at the destination incommingMessage looks the
\* functionName up in the registry the outbound marshaling filled
StubInvoke(pos) ==
  /\ mar.op \in {"in", "invoke"}
  /\ Sub(mar.in, pos).t = "stub"
  /\ LET stub == Sub(mar.in, pos)
         fname == IF stub.path.t = "prim" THEN stub.path.v ELSE ""
     IN mar' = [mar EXCEPT !.op = "invoke",
                  !.call = [made |-> TRUE, pos |-> pos, dest |-> stub.dest,
                            functionName |-> fname,
                            cb |-> IF MapHas(mar.out.cb, fname)
                                     THEN mar.out.cb[fname] ELSE Undef]]
  /\ UNCHANGED <<rpcVars, bcVars, ahVars, extVars>>

DoMarshalOut ==
  \E data \in MarshalData, depth \in StartDepths, maxDepth \in MaxDepths :
    MarshalOut(data, depth, maxDepth)
DoStubInvoke == \E pos \in Positions(mar.in) : StubInvoke(pos)

MarshalNext ==
  \/ DoMarshalOut
  \/ MarshalIn
  \/ DoStubInvoke

MarshalSpec == Init /\ [][MarshalNext]_vars


(***************************************************************************)
(* ChannelBroadcaster (src/src/rpcProvider.ts).  Every emitToAll call is   *)
(* an async function: it runs without interruption up to its next await    *)
(* and is resumed when the promise it awaits settles.  The payload of the  *)
(* i-th call is i.                                                         *)
(***************************************************************************)
MaxEmits == 3

\* the finally block of emitToAll
EmitFinally(n) == IF n > 0 THEN n - 1 ELSE n

\* _send(d): the message is built and handed to connection.sendMessage
\* (init: how far the setup of that connection got, kept for the properties)
Send(log, d, init) == Append(log, [data |-> d, init |-> init])

EmitCall(pc, path, afterFailure) ==
  [pc |-> pc, path |-> path, afterFailure |-> afterFailure]

\* some earlier emitToAll call has thrown
SomeEmitThrew == \E j \in 1..Len(emits) : emits[j].pc = "threw"

\* emitToAll(data) up to its first await (or its return): data is the
\* number of the call; clientThrows tells whether getClient throws
EmitToAll(clientThrows) ==
  /\ Len(emits) < MaxEmits
  /\ LET data == Len(emits) + 1
         call(pc, path) ==
           Append(emits, EmitCall(pc, path, SomeEmitThrew))
     IN IF ~connection.made
          THEN \* connecting = true; buffer.push(data); getClient(...)
               /\ buffer' = Append(buffer, data)
               /\ IF clientThrows
                    THEN /\ connecting' = FALSE
                         /\ inflightCount' = EmitFinally(inflightCount)
                         /\ emits' = call("threw", "setup")
                         /\ UNCHANGED connection
                    ELSE /\ connecting' = TRUE
                         /\ connection' = [connection EXCEPT !.made = TRUE,
                                                             !.init = "pending"]
                         /\ emits' = call("awaitInit", "setup")
                         /\ UNCHANGED inflightCount
               /\ UNCHANGED handed
        ELSE IF connecting
          THEN \* buffer.push(data); return
               /\ buffer' = Append(buffer, data)
               /\ inflightCount' = EmitFinally(inflightCount)
               /\ emits' = call("done", "buffered")
               /\ UNCHANGED <<connection, connecting, handed>>
        ELSE   \* inflightCount++; await this._send(data)
               /\ inflightCount' = inflightCount + 1
               /\ handed' = Send(handed, data, connection.init)
               /\ emits' = call("awaitSend", "direct")
               /\ UNCHANGED <<connection, buffer, connecting>>
  /\ UNCHANGED <<rpcVars, marVars, ahVars, extVars, closeCall>>

\* the drain loop taking the newest payload first (buffer.pop())
DrainStepLifo(i, count) ==
  IF Len(buffer) > 0
    THEN /\ buffer' = SubSeq(buffer, 1, Len(buffer) - 1)
         /\ inflightCount' = count + 1
         /\ handed' = Send(handed, buffer[Len(buffer)], "ok")
         /\ emits' = [emits EXCEPT ![i].pc = "draining"]
         /\ UNCHANGED connecting
    ELSE /\ connecting' = FALSE
         /\ buffer' = <<>>
         /\ inflightCount' = EmitFinally(count)
         /\ emits' = [emits EXCEPT ![i].pc = "done"]
         /\ UNCHANGED handed

\* the drain loop from its test (it runs only once init() has succeeded):
\* the next buffered payload is shifted and sent, or the loop ends and the
\* call returns
DrainStep(i, count) ==
  IF Len(buffer) > 0
    THEN /\ buffer' = Tail(buffer)
         /\ inflightCount' = count + 1
         /\ handed' = Send(handed, Head(buffer), "ok")
         /\ emits' = [emits EXCEPT ![i].pc = "draining"]
         /\ UNCHANGED connecting
    ELSE /\ connecting' = FALSE
         /\ buffer' = <<>>
         /\ inflightCount' = EmitFinally(count)
         /\ emits' = [emits EXCEPT ![i].pc = "done"]
         /\ UNCHANGED handed

\* the catch and finally blocks of emitToAll
EmitThrows(i, count) ==
  /\ connecting' = FALSE
  /\ inflightCount' = EmitFinally(count)
  /\ emits' = [emits EXCEPT ![i].pc = "threw"]
  /\ UNCHANGED <<buffer, handed>>

\* connection.init() settles for the call that awaits it
InitSettles(i, ok) ==
  /\ i \in 1..Len(emits)
  /\ emits[i].pc = "awaitInit"
  /\ connection' = [connection EXCEPT !.init = IF ok THEN "ok" ELSE "failed"]
  /\ IF ok
       THEN DrainStep(i, inflightCount)
       ELSE EmitThrows(i, inflightCount)
  /\ UNCHANGED <<rpcVars, marVars, ahVars, extVars, closeCall>>

\* the send awaited in the drain loop settles: the inner finally, then the
\* rethrow or the next turn of the loop
DrainSendSettles(i, ok) ==
  /\ i \in 1..Len(emits)
  /\ emits[i].pc = "draining"
  /\ IF ok THEN DrainStep(i, inflightCount - 1)
           ELSE EmitThrows(i, inflightCount - 1)
  /\ UNCHANGED <<rpcVars, marVars, ahVars, extVars, connection, closeCall>>

\* the send awaited on the direct path settles
DirectSendSettles(i, ok) ==
  /\ i \in 1..Len(emits)
  /\ emits[i].pc = "awaitSend"
  /\ IF ok THEN /\ inflightCount' = EmitFinally(inflightCount)
                /\ emits' = [emits EXCEPT ![i].pc = "done"]
                /\ UNCHANGED <<buffer, connecting, handed>>
           ELSE EmitThrows(i, inflightCount)
  /\ UNCHANGED <<rpcVars, marVars, ahVars, extVars, connection, closeCall>>

\* waitForDrain: the condition of its polling loop
Draining == inflightCount > 0 \/ Len(buffer) > 0 \/ connecting

\* after the race: if (this.connection) await this.connection.close()
AfterRace(drained) ==
  /\ closeCall' = [pc |-> "closing", drained |-> drained,
                    hadConnection |-> connection.made]
  /\ connection' = [connection EXCEPT !.closed = connection.made]

\* close(timeoutMs) is called: the race between waitForDrain and the
\* deadline starts
BroadcasterClose ==
  /\ closeCall.pc = "idle"
  /\ closeCall' = [closeCall EXCEPT !.pc = "racing"]
  /\ UNCHANGED <<rpcVars, marVars, ahVars, extVars, connection, buffer, connecting,
                 inflightCount, emits, handed>>

\* waitForDrain finds nothing left and wins the race
WaitForDrainReturns ==
  /\ closeCall.pc = "racing"
  /\ ~Draining
  /\ AfterRace(TRUE)
  /\ UNCHANGED <<rpcVars, marVars, ahVars, extVars, buffer, connecting, inflightCount, emits,
                 handed>>

\* a close() whose race has no deadline: only the drain ends it
CloseDeadlineNeedsDrain ==
  /\ closeCall.pc = "racing"
  /\ ~Draining
  /\ AfterRace(FALSE)
  /\ UNCHANGED <<rpcVars, marVars, ahVars, extVars, buffer, connecting, inflightCount, emits,
                 handed>>

\* the deadline setTimeout(resolve, timeoutMs) wins the race
CloseDeadline ==
  /\ closeCall.pc = "racing"
  /\ AfterRace(FALSE)
  /\ UNCHANGED <<rpcVars, marVars, ahVars, extVars, buffer, connecting, inflightCount, emits,
                 handed>>

\* connection.close() resolves (or there was no connection): close returns
CloseReturns ==
  /\ closeCall.pc = "closing"
  /\ closeCall' = [closeCall EXCEPT !.pc = "done"]
  /\ UNCHANGED <<rpcVars, marVars, ahVars, extVars, connection, buffer, connecting,
                 inflightCount, emits, handed>>

DoEmitToAll == \E clientThrows \in BOOLEAN : EmitToAll(clientThrows)
DoInitSettles == \E i \in 1..MaxEmits, ok \in BOOLEAN : InitSettles(i, ok)
DoDrainSendSettles ==
  \E i \in 1..MaxEmits, ok \in BOOLEAN : DrainSendSettles(i, ok)
DoDirectSendSettles ==
  \E i \in 1..MaxEmits, ok \in BOOLEAN : DirectSendSettles(i, ok)

BroadcastNext ==
  \/ DoEmitToAll
  \/ DoInitSettles
  \/ DoDrainSendSettles
  \/ DoDirectSendSettles
  \/ BroadcasterClose
  \/ WaitForDrainReturns
  \/ CloseDeadline
  \/ CloseReturns

BroadcastSpec == Init /\ [][BroadcastNext]_vars

\* timers fire and the transport's close() resolves
FairBroadcastSpec ==
  BroadcastSpec /\ WF_vars(CloseDeadline) /\ WF_vars(CloseReturns)

\* every promise an emitToAll call awaits settles
SettlingBroadcastSpec ==
  /\ BroadcastSpec
  /\ WF_vars(DoInitSettles)
  /\ WF_vars(DoDrainSendSettles)
  /\ WF_vars(DoDirectSendSettles)


(***************************************************************************)
(* AbortHandler (src/src/PostMessageBridge.ts): a chain of coordinator     *)
(* nodes, each constructed with the one above it as its parentAbortHandler;*)
(* init() of a node registers it with its parent.  A listener is called    *)
(* when an operation starts and settles in a later step; an operation is   *)
(* the handling of one inbound request or one call of abort(), bargeIn()   *)
(* or hydrate(), joined on the promises of its listeners.                  *)
(***************************************************************************)
MaxOps == 2
MaxRegs == 2

\* the nodes constructed with a parentAbortHandler, and that parent
Linkable == Nodes \ {"parent"}
ParentOf(c) == IF c = "child" THEN "parent" ELSE "child"
Children(n) == {c \in Linkable : ParentOf(c) = n}

\* AbortHandle {id, func}; func is a listener of user code, or the listener
\* init() of node c registers, written c
Handle(id, func) == [id |-> id, func |-> func]
\* the handles init() of node c registers with its parent
LinkAbortId(c) == generateUUID(c, 1)
LinkBargeInId(c) == generateUUID(c, 2)
LinkId(type, c) == IF type = "abort" THEN LinkAbortId(c) ELSE LinkBargeInId(c)
LinkIds == {LinkId(type, c) : type \in {"abort", "barge-in"}, c \in Linkable}

\* Object.values of the registry the verb uses
Listeners(n, type) ==
  IF type = "abort" THEN abortListeners[n]
  ELSE IF type = "barge-in" THEN bargeInListeners[n]
  ELSE IF type = "hydrate"
    THEN {hydrationListeners[n][i] : i \in 1..Len(hydrationListeners[n])}
  ELSE {}
UserIds(n, type) ==
  {h.id : h \in {x \in Listeners(n, type) : x.func \in ListenerFuncs}}

\* no node is registered with its parent
FannedNone(n, type) == {}
\* the children of n whose init() has left a listener of this type with n
Fanned(n, type) ==
  {c \in Children(n) : Handle(LinkId(type, c), c) \in Listeners(n, type)}

\* the nodes an operation started at n reaches: n, and through the
\* listeners its descendants registered, their abort() or bargeIn()
RECURSIVE FanSet(_, _)
FanSet(n, type) == {n} \cup UNION {FanSet(c, type) : c \in Fanned(n, type)}

\* what the first hydration listener resolves with
Result(func) == [type |-> "hydrated", data |-> func]

\* the join ends: the reply of an inbound request is sent, or abort(),
\* bargeIn() or hydrate() returns or throws; running keeps the listeners not
\* yet settled at that moment.  The hydrate branch has no catch of its own:
\* its failure leaves the message callback through the outer catch, which
\* throws again, and no reply is sent
Finish(op, ok) ==
  [op EXCEPT !.st = IF ok THEN "done" ELSE "failed",
             !.reply = IF op.origin # "inbound" THEN "none"
                       ELSE IF op.type = "ping" THEN "pong"
                       ELSE IF op.type = "hydrate"
                         THEN (IF ok THEN "hydrated" ELSE "none")
                       ELSE IF ~ok THEN "error"
                       ELSE IF op.type = "abort" THEN "aborted"
                       ELSE "barged-in",
             !.escaped = op.origin = "inbound" /\ op.type = "hydrate" /\ ~ok,
             !.running = op.pending]

\* the join over no listener at all resolves; the hydrate branch then reads
\* results[0].data of an empty array, which throws
EmptyJoinOk(type, origin) == ~(type = "hydrate" /\ origin = "inbound")

NewOp(node, type, origin, join, pending, called, data, parentOp) ==
  LET op == [node |-> node, type |-> type, origin |-> origin, join |-> join,
             pending |-> pending, called |-> called, st |-> "waiting",
             reply |-> "none", data |-> data, escaped |-> FALSE,
             parentOp |-> parentOp, running |-> {}, msgType |-> type]
  IN IF pending = {} THEN Finish(op, EmptyJoinOk(type, origin)) ELSE op

\* Promise.all rejects with the first rejection and resolves when every
\* promise has resolved; Promise.allSettled resolves when every promise
\* has settled
SettleOne(op, hid, ok) ==
  LET op1 == [op EXCEPT !.pending = @ \ {hid}]
  IN IF op.st # "waiting" THEN op1
     ELSE IF op.join = "all" /\ ~ok THEN Finish(op1, FALSE)
     ELSE IF op1.pending = {} THEN Finish(op1, TRUE)
     ELSE op1

JoinOf(type, origin) ==
  IF type \in {"barge-in", "hydrate"} /\ origin # "inbound"
    THEN "allSettled" ELSE "all"

\* results[0].data: what the first registered hydration listener returns
FirstData(n, type) ==
  IF type = "hydrate" /\ hydrationListeners[n] # <<>>
    THEN Result(hydrationListeners[n][1].func).data
    ELSE "none"

\* the operations the start of one at node n adds, n's own at index at:
\* every listener of n has been called, and through the listeners of its
\* children their abort(reason) or bargeIn(reason) has started as well
RECURSIVE OpsFrom(_, _, _, _, _)
OpsFrom(n, type, origin, parentOp, at) ==
  LET fans == Fanned(n, type)
      sub == IF fans = {} THEN <<>>
             ELSE OpsFrom(CHOOSE c \in fans : TRUE, type, "fanout", at, at + 1)
      links == IF sub # <<>> /\ sub[1].st = "waiting"
                 THEN {LinkId(type, sub[1].node)} ELSE {}
  IN <<NewOp(n, type, origin, JoinOf(type, origin),
             UserIds(n, type) \cup links,
             {h.id : h \in Listeners(n, type)},
             FirstData(n, type), parentOp)>> \o sub

StartedOps(n, type, origin) == ops \o OpsFrom(n, type, origin, 0, Len(ops) + 1)

\* the calls of listener functions the start of an operation makes
CalledBy(n, type) ==
  [f \in ListenerFuncs |->
     Cardinality({h \in UNION {Listeners(m, type) : m \in FanSet(n, type)} :
                    h.func = f})]

\* the flag a node raises when it starts an operation, raised too by every
\* node the operation reaches
Raised(flags, n, type) == [m \in Nodes |-> flags[m] \/ m \in FanSet(n, type)]

\* hydrating after the start or the end of a hydrate operation: true while
\* it waits; the assignment of false is skipped when the handling throws
HydratingAfter(op) == op.st # "done"

TopLevelOps == Cardinality({o \in 1..Len(ops) : ops[o].parentOp = 0})

\* the types, other than the four of the protocol, a request can carry
OtherTypes == {"unknown", "undefined"}

\* the handling of type starts at node n; msgType is data.type of the
\* request, or the verb of the local call, that started it
StartAs(n, type, origin, msgType) ==
  /\ ops' = [StartedOps(n, type, origin)
              EXCEPT ![Len(ops) + 1].msgType = msgType]
  /\ invoked' = [f \in ListenerFuncs |-> invoked[f] + CalledBy(n, type)[f]]
  /\ aborting' = IF type = "abort" THEN Raised(aborting, n, type) ELSE aborting
  /\ bargingIn' =
       IF type = "barge-in" THEN Raised(bargingIn, n, type) ELSE bargingIn
  /\ hydrating' =
       IF type = "hydrate"
         THEN [hydrating EXCEPT ![n] = HydratingAfter(ops'[Len(ops')])]
         ELSE hydrating
  /\ UNCHANGED <<rpcVars, marVars, bcVars, rqVars, brVars, travVars,
                 abortListeners, bargeInListeners, hydrationListeners,
                 linked, regs>>

Start(n, type, origin) == StartAs(n, type, origin, type)

\* _client.onMessage: a request whose data.type is none of ping, barge-in,
\* hydrate and abort arrives at node n: the else branch
InboundOther(n, msgType) ==
  /\ TopLevelOps < MaxOps
  /\ StartAs(n, "abort", "inbound", msgType)
\* _client.onMessage: an abort request (the else branch) arrives at node n
InboundAbort(n) ==
  /\ TopLevelOps < MaxOps
  /\ Start(n, "abort", "inbound")
\* _client.onMessage: a barge-in request arrives at node n
InboundBargeIn(n) ==
  /\ TopLevelOps < MaxOps
  /\ Start(n, "barge-in", "inbound")
\* _client.onMessage: a hydrate request arrives at node n
InboundHydrate(n) ==
  /\ TopLevelOps < MaxOps
  /\ Start(n, "hydrate", "inbound")
\* _client.onMessage: a ping request arrives at node n
InboundPing(n) ==
  /\ TopLevelOps < MaxOps
  /\ Start(n, "ping", "inbound")
\* abort(reason) called on node n
abort(n) ==
  /\ TopLevelOps < MaxOps
  /\ Start(n, "abort", "local")
\* bargeIn(reason) called on node n
bargeIn(n) ==
  /\ TopLevelOps < MaxOps
  /\ Start(n, "barge-in", "local")
\* hydrate() called on node n
hydrate(n) ==
  /\ TopLevelOps < MaxOps
  /\ Start(n, "hydrate", "local")

\* the operations once listener hid of operation o has settled: when that
\* ends the operation of a child, the child's listener at the parent
\* settles with it, and so on up the chain
RECURSIVE Settled(_, _, _, _)
Settled(all, o, hid, ok) ==
  LET op1 == SettleOne(all[o], hid, ok)
      p == all[o].parentOp
      now == [all EXCEPT ![o] = op1]
  IN IF all[o].st = "waiting" /\ op1.st # "waiting" /\ p > 0
       THEN Settled(now, p, LinkId(op1.type, op1.node), op1.st = "done")
       ELSE now

\* the promise of listener hid of operation o settles
ListenerSettles(o, hid, ok) ==
  /\ o \in 1..Len(ops)
  /\ hid \in ops[o].pending
  /\ hid \notin LinkIds
  /\ ops' = Settled(ops, o, hid, ok)
  /\ hydrating' =
       IF ops[o].type = "hydrate" /\ ops[o].st = "waiting"
            /\ ops'[o].st # "waiting"
         THEN [hydrating EXCEPT ![ops[o].node] = HydratingAfter(ops'[o])]
         ELSE hydrating
  /\ UNCHANGED <<rpcVars, marVars, bcVars, rqVars, brVars, travVars, aborting,
                 bargingIn, abortListeners, bargeInListeners,
                 hydrationListeners, linked, regs, invoked>>

\* one call of onAbortRequested, onBargeInRequested or
\* onRequestHydrationRequested and what it did: it threw, it registered the
\* listener, or it called the listener at once
Registration(n, kind, func, outcome) ==
  [node |-> n, kind |-> kind, func |-> func, outcome |-> outcome]

\* onAbortRequested(func) without the test of the aborting flag
onAbortRequestedUnguarded(n, func) ==
  /\ Len(regs) < MaxRegs
  /\ regs' = Append(regs, Registration(n, "abort", func, "registered"))
  /\ abortListeners' =
       [abortListeners EXCEPT
          ![n] = @ \cup {Handle(generateUUID("h", Len(regs) + 1), func)}]
  /\ UNCHANGED <<rpcVars, marVars, bcVars, extVars, aborting, bargingIn,
                 bargeInListeners, linked, ops, invoked>>

\* onAbortRequested(func) on node n
onAbortRequested(n, func) ==
  /\ Len(regs) < MaxRegs
  /\ regs' = Append(regs, Registration(n, "abort", func,
                                       IF aborting[n] THEN "threw"
                                       ELSE "registered"))
  /\ IF aborting[n]
       THEN UNCHANGED abortListeners
       ELSE abortListeners' =
              [abortListeners EXCEPT
                 ![n] = @ \cup {Handle(generateUUID("h", Len(regs) + 1), func)}]
  /\ UNCHANGED <<rpcVars, marVars, bcVars, extVars, aborting, bargingIn,
                 bargeInListeners, linked, ops, invoked>>

\* onBargeInRequested(func) without the test of the bargingIn flag
onBargeInRequestedUnguarded(n, func) ==
  /\ Len(regs) < MaxRegs
  /\ regs' = Append(regs, Registration(n, "barge-in", func, "registered"))
  /\ bargeInListeners' =
       [bargeInListeners EXCEPT
          ![n] = @ \cup {Handle(generateUUID("h", Len(regs) + 1), func)}]
  /\ UNCHANGED invoked
  /\ UNCHANGED <<rpcVars, marVars, bcVars, extVars, aborting, bargingIn,
                 abortListeners, linked, ops>>

\* onBargeInRequested(func) on node n
onBargeInRequested(n, func) ==
  /\ Len(regs) < MaxRegs
  /\ regs' = Append(regs, Registration(n, "barge-in", func,
                                       IF bargingIn[n] THEN "invoked"
                                       ELSE "registered"))
  /\ IF bargingIn[n]
       THEN /\ invoked' = [invoked EXCEPT ![func] = @ + 1]
            /\ UNCHANGED bargeInListeners
       ELSE /\ bargeInListeners' =
                 [bargeInListeners EXCEPT
                    ![n] = @ \cup {Handle(generateUUID("h", Len(regs) + 1),
                                          func)}]
            /\ UNCHANGED invoked
  /\ UNCHANGED <<rpcVars, marVars, bcVars, extVars, aborting, bargingIn,
                 abortListeners, linked, ops>>

\* onRequestHydrationRequested(func) on node n
onRequestHydrationRequested(n, func) ==
  /\ Len(regs) < MaxRegs
  /\ regs' = Append(regs, Registration(n, "hydrate", func, "registered"))
  /\ hydrationListeners' =
       [hydrationListeners EXCEPT
          ![n] = Append(@, Handle(generateUUID("h", Len(regs) + 1), func))]
  /\ UNCHANGED <<rpcVars, marVars, bcVars, rqVars, brVars, travVars,
                 aborting, bargingIn, abortListeners, bargeInListeners,
                 linked, ops, invoked, hydrating>>

\* init() of node c: it registers an abort listener and a barge-in listener
\* with its parent; the first throws when the parent is aborting, the
\* second is called at once when the parent is barging in, and that call
\* is bargeIn() on c
ChildInit(c) ==
  /\ linked[c] = "no"
  /\ IF aborting[ParentOf(c)]
       THEN /\ linked' = [linked EXCEPT ![c] = "threw"]
            /\ UNCHANGED <<abortListeners, bargeInListeners, bargingIn, ops,
                           invoked>>
       ELSE /\ linked' = [linked EXCEPT ![c] = "yes"]
            /\ abortListeners' =
                 [abortListeners EXCEPT
                    ![ParentOf(c)] = @ \cup {Handle(LinkAbortId(c), c)}]
            /\ IF bargingIn[ParentOf(c)]
                 THEN /\ ops' = StartedOps(c, "barge-in", "fanout")
                      /\ invoked' =
                           [f \in ListenerFuncs |->
                              invoked[f] + CalledBy(c, "barge-in")[f]]
                      /\ bargingIn' = Raised(bargingIn, c, "barge-in")
                      /\ UNCHANGED bargeInListeners
                 ELSE /\ bargeInListeners' =
                           [bargeInListeners EXCEPT
                              ![ParentOf(c)] = @ \cup {Handle(LinkBargeInId(c), c)}]
                      /\ UNCHANGED <<bargingIn, ops, invoked>>
  /\ UNCHANGED <<rpcVars, marVars, bcVars, extVars, aborting, regs>>

DoInboundAbort == \E n \in Nodes : InboundAbort(n)
DoInboundBargeIn == \E n \in Nodes : InboundBargeIn(n)
DoInboundHydrate == \E n \in Nodes : InboundHydrate(n)
DoInboundPing == \E n \in Nodes : InboundPing(n)
DoInboundOther ==
  \E n \in Nodes, msgType \in OtherTypes : InboundOther(n, msgType)
DoAbort == \E n \in Nodes : abort(n)
DoBargeIn == \E n \in Nodes : bargeIn(n)
DoHydrate == \E n \in Nodes : hydrate(n)
DoListenerSettles ==
  \E o \in 1..Len(ops) : \E hid \in ops[o].pending, ok \in BOOLEAN :
    ListenerSettles(o, hid, ok)
DoOnAbortRequested ==
  \E n \in Nodes, func \in ListenerFuncs : onAbortRequested(n, func)
DoOnBargeInRequested ==
  \E n \in Nodes, func \in ListenerFuncs : onBargeInRequested(n, func)
DoOnRequestHydrationRequested ==
  \E n \in Nodes, func \in ListenerFuncs : onRequestHydrationRequested(n, func)
DoChildInit == \E c \in Linkable : ChildInit(c)

\* abort and barge-in over the chain of nodes
AbortNext ==
  \/ DoInboundAbort
  \/ DoInboundBargeIn
  \/ DoAbort
  \/ DoBargeIn
  \/ DoListenerSettles
  \/ DoOnAbortRequested
  \/ DoOnBargeInRequested
  \/ DoChildInit

AbortSpec == Init /\ [][AbortNext]_vars

\* the four verbs of the control protocol as one handler receives them
ControlNext ==
  \/ DoInboundPing
  \/ DoInboundOther
  \/ DoInboundAbort
  \/ DoInboundBargeIn
  \/ DoInboundHydrate
  \/ DoHydrate
  \/ DoListenerSettles
  \/ DoOnAbortRequested
  \/ DoOnBargeInRequested
  \/ DoOnRequestHydrationRequested

ControlSpec == Init /\ [][ControlNext]_vars

(***************************************************************************)
(* AbortRequestor (src/src/PostMessageBridge.ts).  rq.sends holds one      *)
(* record per call of _sendMessage: the promise it returned, the           *)
(* setResponse flag and the timer of its closure; rq.resolve is the index  *)
(* of the call whose closure this._resolve holds, 0 when it is unset.      *)
(***************************************************************************)
MaxSends == 2
MaxDeliveries == 2

Verbs == {"abort", "ping", "barge-in", "hydrate"}
\* the types of the replies a handler sends
ReplyTypes == {"pong", "aborted", "barged-in", "hydrated", "error"}
TimeoutResult == [type |-> "timeout", success |-> FALSE]
\* no value yet, and the errors a send rejects with
NoResult == [type |-> "none", success |-> FALSE]
Failure(what) == [type |-> what, success |-> FALSE]
ReplyResult(type) == [type |-> type, success |-> type # "error"]

\* a promise settles once: a later resolve or reject changes nothing
SettleSend(sd, st, value) ==
  IF sd.st = "pending" THEN [sd EXCEPT !.st = st, !.value = value] ELSE sd

\* the closure stored in this._resolve, called with value
ResolveClosure(sd, value) ==
  IF sd.setResponse THEN sd
  ELSE SettleSend([sd EXCEPT !.setResponse = TRUE], "resolved", value)

\* the callback given to setTimeout
TimeoutClosure(sd) ==
  IF sd.setResponse THEN [sd EXCEPT !.timer = "fired"]
  ELSE SettleSend([sd EXCEPT !.setResponse = TRUE, !.timer = "fired"],
                  "resolved", TimeoutResult)

\* a _sendMessage call: its message, the promise it returns (st, value),
\* the closure of the executor (setResponse, timer) and, for the
\* properties, the first message delivered while it waited
NewSend(verb) ==
  [verb |-> verb, st |-> "init", value |-> NoResult, setResponse |-> FALSE,
   timer |-> "none", first |-> NoResult]

\* the executor of the promise, up to and including the outcome of the
\* awaited sendMessage: the timer is set, _resolve is replaced, the
\* message is handed to the client
Executor(sd, sendOk) ==
  LET waiting == [sd EXCEPT !.st = "pending", !.timer = "armed"]
  IN IF sendOk THEN waiting
     ELSE SettleSend(waiting, "rejected", Failure("send failed"))

\* _sendMessage(message, timeout) up to its first await: with hasInit set
\* the executor runs at once, otherwise the call awaits _client.init()
RequestorSend(verb, sendOk) ==
  /\ Len(rq.sends) < MaxSends
  /\ LET i == Len(rq.sends) + 1
     IN IF rq.hasInit
          THEN rq' = [rq EXCEPT
                 !.resolve = i,
                 !.sends = Append(@, Executor(NewSend(verb), sendOk))]
          ELSE rq' = [rq EXCEPT
                 !.inits = @ + 1,
                 !.sends = Append(@, NewSend(verb))]
  /\ UNCHANGED <<rpcVars, marVars, bcVars, ahVars, hyVars, brVars, travVars>>

\* the init() awaited by send i settles: hasInit is set and the executor
\* runs, or the call rejects
RequestorInitSettles(i, initOk, sendOk) ==
  /\ i \in 1..Len(rq.sends)
  /\ rq.sends[i].st = "init"
  /\ IF initOk
       THEN rq' = [rq EXCEPT
              !.hasInit = TRUE,
              !.resolve = i,
              !.sends[i] = Executor(@, sendOk)]
       ELSE rq' = [rq EXCEPT
              !.sends[i] = [@ EXCEPT !.st = "rejected",
                                     !.value = Failure("init failed")]]
  /\ UNCHANGED <<rpcVars, marVars, bcVars, ahVars, hyVars, brVars, travVars>>

\* every send still waiting notes the first message delivered since it
\* started
Noted(sends, value) ==
  [i \in 1..Len(sends) |->
     IF sends[i].st = "pending" /\ sends[i].first = NoResult
       THEN [sends[i] EXCEPT !.first = value] ELSE sends[i]]

\* _client.onMessage: a message for this client arrives, its data a reply
\* of the given type
RequestorOnMessage(type) ==
  /\ rq.delivered < MaxDeliveries
  /\ LET noted == Noted(rq.sends, ReplyResult(type))
     IN rq' = [rq EXCEPT
          !.delivered = @ + 1,
          !.sends = IF rq.resolve = 0 THEN noted
                    ELSE [noted EXCEPT ![rq.resolve] =
                            ResolveClosure(@, ReplyResult(type))]]
  /\ UNCHANGED <<rpcVars, marVars, bcVars, ahVars, hyVars, brVars, travVars>>

\* the timer of send i fires
RequestorTimerFires(i) ==
  /\ i \in 1..Len(rq.sends)
  /\ rq.sends[i].timer = "armed"
  /\ rq' = [rq EXCEPT !.sends[i] = TimeoutClosure(@)]
  /\ UNCHANGED <<rpcVars, marVars, bcVars, ahVars, hyVars, brVars, travVars>>

\* close()
RequestorClose ==
  /\ ~rq.closed
  /\ rq' = IF rq.hasInit
             THEN [rq EXCEPT !.hasInit = FALSE, !.resolve = 0, !.closed = TRUE]
             ELSE [rq EXCEPT !.closed = TRUE]
  /\ UNCHANGED <<rpcVars, marVars, bcVars, ahVars, hyVars, brVars, travVars>>

DoRequestorSend ==
  \E verb \in Verbs, sendOk \in BOOLEAN : RequestorSend(verb, sendOk)
DoRequestorInitSettles ==
  \E i \in 1..Len(rq.sends), initOk \in BOOLEAN, sendOk \in BOOLEAN :
    RequestorInitSettles(i, initOk, sendOk)
DoRequestorOnMessage == \E type \in ReplyTypes : RequestorOnMessage(type)
DoRequestorTimerFires == \E i \in 1..Len(rq.sends) : RequestorTimerFires(i)

RequestorNext ==
  \/ DoRequestorSend
  \/ DoRequestorInitSettles
  \/ DoRequestorOnMessage
  \/ DoRequestorTimerFires
  \/ RequestorClose

RequestorSpec == Init /\ [][RequestorNext]_vars

(***************************************************************************)
(* PostMessageBridge (src/src/PostMessageBridge.ts): sendMessage and       *)
(* handleMessageEvent, each run on its own for a configuration and an      *)
(* input.  A string whose text matters is a sequence: an origin is a       *)
(* sequence of tokens ("https://", ".", labels or parts of one), a         *)
(* serialized payload a                                                    *)
(* sequence of code points, a base64 text a sequence of 6-bit values with  *)
(* Pad for "=".                                                            *)
(***************************************************************************)
MaxPayload == 3
DefaultThreshold == 50000
Pad == 64

\* s.endsWith(t) and s.startsWith(t) on sequences
EndsWith(seq, t) ==
  Len(t) <= Len(seq) /\ SubSeq(seq, Len(seq) - Len(t) + 1, Len(seq)) = t
StartsWith(seq, t) == Len(t) <= Len(seq) /\ SubSeq(seq, 1, Len(t)) = t

\* a configuration value left out, and one given
Unset == [set |-> FALSE]
Given(v) == [set |-> TRUE, v |-> v]

\* the wildcard test made against the domain without its leading dot
isPostMessageOriginAllowedNoDot(allow, origin) ==
  IF ~allow.set THEN TRUE
  ELSE \E i \in 1..Len(allow.v) :
         \/ allow.v[i] = origin
         \/ /\ StartsWith(allow.v[i], <<"*", ".">>)
            /\ EndsWith(origin, Tail(Tail(allow.v[i])))

\* isPostMessageOriginAllowed(origin); allow is cors.botdojoChatDomain
isPostMessageOriginAllowed(allow, origin) ==
  IF ~allow.set THEN TRUE
  ELSE \E i \in 1..Len(allow.v) :
         \/ allow.v[i] = origin
         \/ /\ StartsWith(allow.v[i], <<"*", ".">>)
            /\ EndsWith(origin, Tail(allow.v[i]))

\* !isChatIframe && this.config.cors?.botdojoChatDomain !== undefined
OriginChecked(cfg) == cfg.role # "chat" /\ cfg.allow.set

\* TextEncoder.encode: UTF-8, for code points below 2048
RECURSIVE Utf8Encode(_)
Utf8Encode(cps) ==
  IF cps = <<>> THEN <<>>
  ELSE (IF Head(cps) < 128 THEN <<Head(cps)>>
        ELSE <<192 + (Head(cps) \div 64), 128 + (Head(cps) % 64)>>)
       \o Utf8Encode(Tail(cps))

\* TextDecoder.decode of well-formed UTF-8
RECURSIVE Utf8Decode(_)
Utf8Decode(bytes) ==
  IF bytes = <<>> THEN <<>>
  ELSE IF Head(bytes) < 128 THEN <<Head(bytes)>> \o Utf8Decode(Tail(bytes))
  ELSE <<(Head(bytes) - 192) * 64 + (bytes[2] - 128)>>
         \o Utf8Decode(Tail(Tail(bytes)))

\* btoa of the string whose char codes are the bytes
RECURSIVE Btoa(_)
Btoa(b) ==
  IF b = <<>> THEN <<>>
  ELSE IF Len(b) = 1
    THEN <<b[1] \div 4, (b[1] % 4) * 16, Pad, Pad>>
  ELSE IF Len(b) = 2
    THEN <<b[1] \div 4, (b[1] % 4) * 16 + (b[2] \div 16), (b[2] % 16) * 4, Pad>>
  ELSE <<b[1] \div 4, (b[1] % 4) * 16 + (b[2] \div 16),
         (b[2] % 16) * 4 + (b[3] \div 64), b[3] % 64>>
       \o Btoa(SubSeq(b, 4, Len(b)))

\* atob, giving the char codes of the binary string
RECURSIVE Atob(_)
Atob(c) ==
  IF c = <<>> THEN <<>>
  ELSE <<c[1] * 4 + (c[2] \div 16)>>
       \o (IF c[3] = Pad THEN <<>> ELSE <<(c[2] % 16) * 16 + (c[3] \div 4)>>)
       \o (IF c[3] = Pad \/ c[4] = Pad THEN <<>> ELSE <<(c[3] % 4) * 64 + c[4]>>)
       \o Atob(SubSeq(c, 5, Len(c)))

\* compressMessage(message): 'compressed:' + base64 of the UTF-8 bytes
compressMessage(message) ==
  [prefix |-> "compressed:", text |-> Btoa(Utf8Encode(message))]

\* decompressMessage(compressed)
decompressMessage(compressed) ==
  IF compressed.prefix # "compressed:" THEN compressed.text
  ELSE Utf8Decode(Atob(compressed.text))

\* this.config.compressionThreshold || 50000
ThresholdOf(cfg) ==
  IF ~cfg.compressionThreshold.set \/ cfg.compressionThreshold.v = 0
    THEN DefaultThreshold
    ELSE cfg.compressionThreshold.v
\* the threshold as configured
ThresholdAsConfigured(cfg) ==
  IF cfg.compressionThreshold.set THEN cfg.compressionThreshold.v
  ELSE DefaultThreshold

\* the envelope sendMessage builds for the serialized message
Envelope(cfg, serialized) ==
  IF cfg.enableCompression # "false" /\ Len(serialized) > ThresholdOf(cfg)
    THEN [type |-> "botdojo-rpc-compressed",
          payload |-> compressMessage(serialized), compressed |-> TRUE]
    ELSE [type |-> "botdojo-rpc",
          payload |-> [prefix |-> "", text |-> serialized],
          compressed |-> FALSE]

SendConfigs ==
  [role : {"unset"}, allow : {Unset}, filterSourceWindow : {"unset"},
   enableCompression : {"unset", "true", "false"},
   compressionThreshold : {Unset} \cup {Given(n) : n \in 0..MaxPayload}]

\* code points of "A" and of e with acute accent: one and two bytes in UTF-8
CodePoints == {65, 233}
RECURSIVE Strings(_)
Strings(n) ==
  IF n = 0 THEN {<<>>}
  ELSE Strings(n - 1)
         \cup {Append(x, c) : x \in {y \in Strings(n - 1) : Len(y) = n - 1},
                              c \in CodePoints}

\* sendMessage(message), serialized being JSON.stringify(messageToSend)
BridgeSendMessage(cfg, serialized) ==
  /\ br.op = "none"
  /\ br' = [NoBridge EXCEPT !.op = "send", !.cfg = cfg,
                            !.serialized = serialized,
                            !.posted = <<Envelope(cfg, serialized)>>]
  /\ UNCHANGED <<rpcVars, marVars, bcVars, ahVars, hyVars, rqVars, travVars>>

Https(labels) == <<"https://">> \o labels
ChatOrigin == Https(<<"chat", ".", "example", ".", "com">>)
SubOrigin == Https(<<"a", ".", "example", ".", "com">>)
EvilOrigin == Https(<<"evil", ".", "com">>)
LookalikeOrigin == Https(<<"bad", "example", ".", "com">>)
WildcardEntry == <<"*", ".", "example", ".", "com">>
Origins == {ChatOrigin, SubOrigin, EvilOrigin, LookalikeOrigin}
Allowlists ==
  {Unset, Given(<<>>), Given(<<ChatOrigin>>), Given(<<WildcardEntry>>),
   Given(<<ChatOrigin, WildcardEntry>>)}

ReceiveConfigs ==
  [role : {"unset", "parent", "canvas", "chat"}, allow : Allowlists,
   filterSourceWindow : {"unset", "false"},
   enableCompression : {"unset"}, compressionThreshold : {Unset}]

\* a message event: its origin, whether event.source is the target window,
\* the envelope type, and the RPC message the payload holds (for a
\* compressed envelope, what it parses to, or that it does not parse);
\* claimed is the origin field of that message, <<>> when it has none
Events ==
  [origin : Origins, fromTarget : BOOLEAN,
   type : {"botdojo-rpc", "botdojo-rpc-compressed"},
   parses : BOOLEAN, hasId : BOOLEAN, claimed : {<<>>, ChatOrigin}]

\* handleRPCMessage: message.origin as the message callback sees it
StampedOrigin(event) ==
  IF event.origin # <<>> /\ event.claimed = <<>>
    THEN event.origin ELSE event.claimed

\* the request an event of the model carries
EventMessage(event) ==
  [id |-> IF event.hasId THEN "m-1" ELSE "", source |-> "canvas",
   destination |-> "host", direction |-> "request", functionName |-> "fn",
   data |-> Arr(<<>>), host_id |-> "notset"]

CorsError(origin) == [blocked |-> origin]

\* what the bridge posts back for a blocked RPC envelope
Blocked(cfg, event) ==
  IF (event.type = "botdojo-rpc-compressed" /\ ~event.parses) \/ ~event.hasId
    THEN <<>>
    ELSE LET r == RPCMessageResponse(EventMessage(event),
                                     CorsError(event.origin), "unused")
         IN IF r.ok THEN <<r.v>> ELSE <<>>

\* handleMessageEvent(event) for an envelope of type botdojo-rpc or
\* botdojo-rpc-compressed, followed by handleRPCMessage
HandleMessageEvent(cfg, event) ==
  /\ br.op = "none"
  /\ LET me == [NoBridge EXCEPT !.op = "receive", !.cfg = cfg, !.event = event]
     IN IF cfg.filterSourceWindow # "false" /\ ~event.fromTarget
          THEN br' = me
        ELSE IF OriginChecked(cfg)
                  /\ ~isPostMessageOriginAllowed(cfg.allow, event.origin)
          THEN br' = [me EXCEPT !.posted = Blocked(cfg, event)]
        ELSE IF event.type = "botdojo-rpc-compressed" /\ ~event.parses
          THEN br' = [me EXCEPT !.onError = TRUE]
        ELSE br' = [me EXCEPT !.delivered = event.hasId,
                              !.origin = IF event.hasId
                                           THEN StampedOrigin(event)
                                           ELSE <<>>]
  /\ UNCHANGED <<rpcVars, marVars, bcVars, ahVars, hyVars, rqVars, travVars>>

DoBridgeSendMessage ==
  \E cfg \in SendConfigs, serialized \in Strings(MaxPayload) :
    BridgeSendMessage(cfg, serialized)
DoHandleMessageEvent ==
  \E cfg \in ReceiveConfigs, event \in Events : HandleMessageEvent(cfg, event)

BridgeNext ==
  \/ DoBridgeSendMessage
  \/ DoHandleMessageEvent

BridgeSpec == Init /\ [][BridgeNext]_vars


(***************************************************************************)
(* getRequestProxyObject (src/src/index.ts) over graphs of objects that    *)
(* may contain themselves.  The heap is a sequence of values: an object or *)
(* an array holds the heap positions of its properties or items, in the    *)
(* order the function visits them.  Each recursive call is a frame of the  *)
(* stack; the engine's call stack holds MaxStack frames, and a call beyond *)
(* it throws a RangeError.                                                 *)
(***************************************************************************)
MaxStack == 104

HObj(kids) == [t |-> "obj", kids |-> kids]
HArr(kids) == [t |-> "arr", kids |-> kids]
HPrim == [t |-> "prim", kids |-> <<>>]
HFn == [t |-> "fn", kids |-> <<>>]

\* the payloads: position 1 is the data handed to sendRequest
Heaps ==
  { \* o = {a: {b: ["x"]}, cb: f}
    << HObj(<<2, 5>>), HObj(<<3>>), HArr(<<4>>), HPrim, HFn >>,
    \* o = {}; o.self = o
    << HObj(<<1>>) >>,
    \* o = {x: "x"}; o.list = [o]
    << HObj(<<2, 3>>), HArr(<<1>>), HPrim >>,
    \* a = []; a.push(a)
    << HArr(<<1>>) >>,
    \* o = {}; o.list = []; o.list.push(o.list)
    << HObj(<<2>>), HArr(<<2>>) >>,
    \* a = [f]
    << HArr(<<2>>), HFn >> }

\* let sendData = Array.isArray(data) ? data : [data]: the heap with the
\* array sendRequest marshals at its last position when data is no array
SendHeap(h) == IF h[1].t = "arr" THEN h ELSE Append(h, HArr(<<1>>))
SendRoot(h) == IF h[1].t = "arr" THEN 1 ELSE Len(h) + 1

\* one call of getRequestProxyObject: source, the next property or item
\* (forEach), and the depth argument
Frame(node, depth) == [node |-> node, i |-> 1, depth |-> depth]

Top == trav.stack[Len(trav.stack)]
TopValue == trav.heap[Top.node]
\* the property or item the top call is about to visit
TopKid == TopValue.kids[Top.i]
Visiting ==
  /\ trav.st = "running"
  /\ TopValue.t \in {"obj", "arr"}
  /\ Top.i <= Len(TopValue.kids)

\* the recursive call is made for every item of an array, and for a
\* property that is an object or an array while depth <= 99
Recurses ==
  \/ TopValue.t = "arr"
  \/ /\ TopValue.t = "obj"
     /\ trav.heap[TopKid].t \in {"obj", "arr"}
     /\ Top.depth <= DepthLimit

\* sendRequest: getRequestProxyObject(id, sender, callbacks, sendData, 0,
\* maxDepth)
TraverseStart(h) ==
  /\ trav.st = "idle"
  /\ trav' = [st |-> "running", heap |-> SendHeap(h),
              stack |-> <<Frame(SendRoot(h), 0)>>, registered |-> {}]
  /\ UNCHANGED <<rpcVars, marVars, bcVars, ahVars, hyVars, rqVars, brVars>>

\* getRequestProxyObject(id + "." + i, ..., prop, depth + 1, maxDepth)
TraverseCall ==
  /\ Visiting
  /\ Recurses
  /\ Len(trav.stack) < MaxStack
  /\ trav' = [trav EXCEPT
                !.stack = Append(@, Frame(TopKid, Top.depth + 1))]
  /\ UNCHANGED <<rpcVars, marVars, bcVars, ahVars, hyVars, rqVars, brVars>>

\* the same call with the call stack full: RangeError
TraverseOverflow ==
  /\ Visiting
  /\ Recurses
  /\ Len(trav.stack) = MaxStack
  /\ trav' = [trav EXCEPT !.st = "overflow"]
  /\ UNCHANGED <<rpcVars, marVars, bcVars, ahVars, hyVars, rqVars, brVars>>

\* a property that is not recursed into: a function is registered and
\* replaced by its token, anything else is copied as it is
TraverseCopy ==
  /\ Visiting
  /\ ~Recurses
  /\ trav' = [trav EXCEPT
                !.stack[Len(trav.stack)].i = @ + 1,
                !.registered = IF trav.heap[TopKid].t = "fn"
                                 THEN @ \cup {<<Top.node, Top.i>>} ELSE @]
  /\ UNCHANGED <<rpcVars, marVars, bcVars, ahVars, hyVars, rqVars, brVars>>

\* the top call returns (forEach is through, or source is no object), or
\* throws "root can't be a function"; the caller goes on to its next item
TraverseReturn ==
  /\ trav.st = "running"
  /\ ~Visiting
  /\ IF TopValue.t = "fn"
       THEN trav' = [trav EXCEPT !.st = "threw"]
       ELSE IF Len(trav.stack) = 1
         THEN trav' = [trav EXCEPT !.st = "returned", !.stack = <<>>]
         ELSE trav' = [trav EXCEPT
                !.stack = [SubSeq(@, 1, Len(@) - 1)
                             EXCEPT ![Len(@) - 1].i = @ + 1]]
  /\ UNCHANGED <<rpcVars, marVars, bcVars, ahVars, hyVars, rqVars, brVars>>

DoTraverseStart == \E h \in Heaps : TraverseStart(h)

TraverseNext ==
  \/ DoTraverseStart
  \/ TraverseCall
  \/ TraverseOverflow
  \/ TraverseCopy
  \/ TraverseReturn

TraverseSpec == Init /\ [][TraverseNext]_vars


(***************************************************************************)
(* Properties.                                                             *)
(***************************************************************************)
TimeoutError(cl) == RPCMessageError(Prim(TimeoutText(cl.dest, cl.fn)))
Issued(c) == calls[c].st = "issued"

\* C1: each sendRequest call settles at most once.  The completion callback
\* and the timer together call resolve/reject at most once; a response
\* dispatched under an id that already had a response changes neither the
\* registry, nor the messages sent, nor anything of the call, and so does
\* the timer expiring after the call was answered.
C1_Step ==
  \A c \in Calls :
    /\ calls'[c].settleCalls <= 1
    /\ (calls[c].nResp >= 1 /\ calls'[c].nResp = calls[c].nResp + 1)
         => /\ callbacks' = callbacks
            /\ sent' = sent
            /\ calls'[c] = [calls[c] EXCEPT !.nResp = @ + 1]
    /\ (calls[c].responseSent /\ calls[c].timer = "armed"
          /\ calls'[c].timer = "fired")
         => /\ callbacks' = callbacks
            /\ sent' = sent
            /\ calls'[c] = [calls[c] EXCEPT !.timer = "fired"]
C1_SettlesAtMostOnce == [][C1_Step]_vars

\* C1 witness: two responses were dispatched under one id and the call was
\* resolved, once, by the first.
C1_Witness ==
  \E c \in Calls :
    /\ calls[c].nResp >= 2
    /\ calls[c].by = "response"
    /\ calls[c].settleCalls = 1
    /\ calls[c].outcome.k = "resolved"

\* C2 (as amended): a call still unsettled when its timer expires is
\* rejected with the timeout error, so that no call is pending once its
\* timer has expired; the rejection stands in every later state, whatever
\* response arrives afterwards.
C2_TimeoutRejects ==
  \A c \in Calls :
    /\ calls[c].timer = "fired" => calls[c].outcome # Pending
    /\ calls[c].by = "timer"
         => /\ calls[c].timer = "fired"
            /\ calls[c].outcome = Rejected(TimeoutError(calls[c]))

\* C2 witness: the timer rejected the call and a response under its id was
\* dispatched afterwards, met by the "already sent" warning.
C2_Witness ==
  \E c \in Calls :
    /\ calls[c].by = "timer"
    /\ calls[c].nResp >= 1
    /\ calls[c].warned >= 1
    /\ calls[c].outcome = Rejected(TimeoutError(calls[c]))

\* C2 as stated: whenever the timer has expired and no response has been
\* dispatched under the call's id, the call is rejected with the timeout
\* error.
C2_Original ==
  \A c \in Calls :
    (calls[c].timer = "fired" /\ calls[c].nResp = 0)
      => calls[c].outcome = Rejected(TimeoutError(calls[c]))

\* C3: every sendRequest call settles, and no later than its timeout: an
\* unsettled call always has its timer running, no call is unsettled once
\* its timer has expired, and every issued call is eventually settled.
C3_AlwaysSettles ==
  /\ [](\A c \in Calls :
          /\ (Issued(c) /\ calls[c].outcome = Pending) => calls[c].timer = "armed"
          /\ calls[c].timer = "fired" => calls[c].outcome # Pending)
  /\ \A c \in Calls : Issued(c) ~> (calls[c].outcome # Pending)

\* C3 witness: the connection was closed while a call was pending, its
\* request was sent and never answered, and the call has been settled.
C3_Witness ==
  \E c \in Calls :
    /\ closed
    /\ calls[c].send = "awaiting"
    /\ calls[c].nResp = 0
    /\ calls[c].by = "timer"

\* C4 as stated: once the timer of a call has expired the registry holds
\* no entry under the call's request id.
C4_Original ==
  \A c \in Calls :
    calls[c].timer = "fired" => ~MapHas(callbacks, calls[c].id)

\* the tag that tells error values apart: a kind, or else the _type
KindOf(x) == IF HasProp(x, "kind") THEN GetProp(x, "kind") ELSE GetProp(x, "_type")

ResponsesTo(msg) ==
  {m \in BagToSet(sent) :
     /\ m.direction = "response"
     /\ m.id = msg.id
     /\ m.source = msg.destination
     /\ m.destination = msg.source}
CountResponsesTo(msg) ==
  LET R == ResponsesTo(msg)
      RECURSIVE Sum(_)
      Sum(S) == IF S = {} THEN 0
                ELSE LET m == CHOOSE x \in S : TRUE
                     IN CopiesIn(m, sent) + Sum(S \ {m})
  IN Sum(R)

\* C6 as stated: for every inbound request whose handler has finished
\* (returned, thrown, or its promise settled) exactly one response with the
\* request's id and the endpoints swapped has been sent.
C6_Original ==
  \A i \in 1..Len(reqs) :
    (reqs[i].msg.destination = Me
       /\ reqs[i].st \in {"returned", "threw", "resolved", "rejected"})
      => CountResponsesTo(reqs[i].msg) = 1

\* C7: an inbound message whose destination is neither this endpoint's id
\* nor the wildcard is dropped: its delivery invokes no handler, sends
\* nothing and leaves the registry and the calls as they were; it only
\* writes the "IGNORE" line to the log.
C7_Step ==
  nForeign' = nForeign + 1
    => /\ UNCHANGED <<callbacks, calls, sent, reqs, invocations>>
       /\ warns' = [warns EXCEPT !.ignore = @ + 1]
C7_DropsForeign == [][C7_Step]_vars

\* C7 witness: a message for another endpoint was dropped while the
\* registry held a pending call and a registered handler.
C7_Witness ==
  /\ nForeign >= 1
  /\ MapHas(callbacks, HandlerName)
  /\ \E c \in Calls : Issued(c) /\ MapHas(callbacks, calls[c].id)

\* the outcome the completion callback gives a call for response data
\* as the transport delivered it
Completion(wireData) ==
  LET data == getReceivedProxyObject(Peer, wireData)
  IN IF data.t = "obj" /\ GetProp(data, "_type") = Prim("MessageError")
       THEN Rejected(data)
       ELSE Resolved(data)

\* C8: a call settled by a response is settled by the first response
\* dispatched under its id: rejected with the response's value when that
\* is tagged as an error object, resolved with the inverse-marshaled value
\* otherwise.
C8_ResponseDecides ==
  \A c \in Calls :
    calls[c].by = "response"
      => /\ calls[c].nResp >= 1
         /\ calls[c].outcome = Completion(calls[c].firstResp)

\* C8 witness: one call was rejected with the error object its response
\* carried.
C8_Witness ==
  \E c \in Calls :
    /\ calls[c].by = "response"
    /\ calls[c].outcome = Rejected(RemoteError)

\* C9: constructing a message with source equal to destination throws, in
\* the constructor, in request() and in response(); no message with equal
\* source and destination is produced.
C9_NoSelfMessage ==
  probe.op # "none"
    => /\ probe.source = probe.destination => ~probe.res.ok
       /\ probe.res.ok => probe.res.v.source # probe.res.v.destination

\* C9 witness: response() was applied to a message whose source is its
\* destination, and threw.
C9_Witness ==
  /\ probe.op = "response"
  /\ probe.req.source = probe.req.destination
  /\ ~probe.res.ok

\* C10: response(req, data) is a message of direction response with req's
\* id, req's destination as source and req's source as destination.
C10_ResponseMirrors ==
  (probe.op = "response" /\ probe.res.ok)
    => /\ probe.res.v.direction = "response"
       /\ probe.res.v.id = probe.req.id
       /\ probe.res.v.source = probe.req.destination
       /\ probe.res.v.destination = probe.req.source

\* C10 witness: response() was applied to a message this endpoint built
\* before, and produced a message.
C10_Witness ==
  /\ probe.op = "response"
  /\ probe.res.ok
  /\ probe.n = 2
  /\ probe.req.id = generateUUID("m", 1)
  /\ probe.res.v.data = Prim("x")

(***************************************************************************)
(* The proxy marshaler (MarshalSpec)                                       *)
(***************************************************************************)
\* the dotted path the outbound marshaling builds for position pos
RECURSIVE PathOf(_, _)
PathOf(id, pos) ==
  IF pos = <<>> THEN id ELSE PathOf(id \o "." \o Head(pos), Tail(pos))

\* the positions of the marshaled payload that hold a function
FnPositions == {pos \in Positions(mar.data) : Sub(mar.data, pos).t = "fn"}

\* the functions contained in v
FnsIn(v) == {Sub(v, q) : q \in {r \in Positions(v) : Sub(v, r).t = "fn"}}

\* C11 (as stated): for every function of an acyclic payload, outbound
\* marshaling succeeds, inbound marshaling at the peer puts a stub in its
\* place, and invoking that stub issues a request to the source of the
\* message whose functionName is the dotted path of the function, under
\* which the registry of the sender holds exactly that function.
C11_Original ==
  \A pos \in FnPositions :
    mar.depth = 0 =>
    /\ mar.op = "out" => mar.out.ok
    /\ mar.op \in {"in", "invoke"}
         => Sub(mar.in, pos) = Stub(Me, Prim(PathOf(mar.id, pos)))
    /\ (mar.op = "invoke" /\ mar.call.pos = pos)
         => /\ mar.call.dest = Me
            /\ mar.call.functionName = PathOf(mar.id, pos)
            /\ mar.call.cb # Undef
            /\ mar.call.cb.func = Sub(mar.data, pos)

\* the depth at which the marshaling finds the value at pos: the depth of
\* the object or array that holds it
FoundAt(pos) == mar.depth + Len(pos) - 1

\* C12 (as stated): an object- or array-valued property found in an object
\* at depth <= maxDepth (the configured value) is recursed into; one found
\* at depth maxDepth + 1 is passed through unmarshaled, and no function
\* below it gets a registry entry.
C12_Original ==
  (mar.op = "out" /\ mar.out.ok)
    => \A pos \in Positions(mar.data) :
         ( /\ Len(pos) >= 2
           /\ Sub(mar.data, SubSeq(pos, 1, Len(pos) - 1)).t = "obj"
           /\ Sub(mar.data, pos).t \in {"arr", "obj"} )
         => IF FoundAt(pos) <= mar.maxDepth
              THEN Sub(mar.out.v, pos) =
                     getRequestProxyObject(PathOf(mar.id, pos), EmptyMap,
                                           Sub(mar.data, pos),
                                           FoundAt(pos) + 1).v
            ELSE IF FoundAt(pos) = mar.maxDepth + 1
              THEN /\ Sub(mar.out.v, pos) = Sub(mar.data, pos)
                   /\ \A k \in DOMAIN mar.out.cb :
                        mar.out.cb[k].func \notin FnsIn(Sub(mar.data, pos))
            ELSE TRUE

(***************************************************************************)
(* ChannelBroadcaster (BroadcastSpec)                                      *)
(***************************************************************************)
\* the emitToAll calls whose payload went through the buffer
Buffered == {i \in 1..Len(emits) : emits[i].path \in {"setup", "buffered"}}

\* payload i has been handed to the transport, at position k of the log
HandedAt(i, k) == k \in 1..Len(handed) /\ handed[k].data = i

\* C13: payloads that went through the buffer reach the transport in the
\* order of their emitToAll calls: when the later one has been handed over,
\* the earlier one was handed over before it; and once every call has
\* returned without an error, the transport has received every payload
\* exactly once, in call order.
C13_FifoOrder ==
  /\ \A i \in Buffered, j \in Buffered :
       i < j => \A q \in 1..Len(handed) :
                  HandedAt(j, q) => \E r \in 1..(q - 1) : HandedAt(i, r)
  /\ (\A i \in 1..Len(emits) : emits[i].pc = "done")
       => /\ Len(handed) = Len(emits)
          /\ \A k \in 1..Len(handed) : handed[k].data = k

\* C13 witness: three payloads, the first emitted before the connection
\* existed and the others buffered behind it, have reached the transport.
C13_Witness ==
  /\ Len(emits) = 3
  /\ emits[1].path = "setup"
  /\ emits[2].path = "buffered"
  /\ emits[3].path = "buffered"
  /\ Len(handed) = 3
  /\ \A k \in 1..3 : handed[k].data = k

\* C14 (as stated): an emitToAll call made after an earlier call has failed
\* sets the connection up again, and no payload is sent on a connection
\* whose setup did not succeed.
C14_Original ==
  /\ \A i \in 1..Len(emits) : emits[i].afterFailure => emits[i].path = "setup"
  /\ \A k \in 1..Len(handed) : handed[k].init = "ok"

\* C15: once close() has started its race it returns, drained or not, and
\* when the race is over it has closed the connection that existed.
C15_CloseCompletes ==
  /\ [](closeCall.pc \in {"closing", "done"}
          => (closeCall.hadConnection => connection.closed))
  /\ (closeCall.pc = "racing") ~> (closeCall.pc = "done")

\* C15 witness: close() has returned and closed the connection although
\* the drain never completed (a payload is still in the buffer).
C15_Witness ==
  /\ closeCall.pc = "done"
  /\ ~closeCall.drained
  /\ connection.closed
  /\ Len(buffer) > 0

(***************************************************************************)
(* Properties of the abort coordinator, checked on AbortSpec.              *)
(***************************************************************************)
AbortOps(n) == {o \in 1..Len(ops) : ops[o].node = n /\ ops[o].type = "abort"}
BargeInOps(n) ==
  {o \in 1..Len(ops) : ops[o].node = n /\ ops[o].type = "barge-in"}
\* the step is a call of onAbortRequested or onBargeInRequested
Registers == Len(regs') = Len(regs) + 1
LastReg == regs'[Len(regs')]

\* C16: aborting is terminal.  Once an abort has been started on a node
\* (inbound request, abort(), or the parent's fan-out) its aborting flag is
\* true and stays true in every later state, and every later call of
\* onAbortRequested on it throws and leaves the abort registry as it was.
C16_AbortingTerminal ==
  /\ [](\A n \in Nodes : AbortOps(n) # {} => aborting[n])
  /\ [][\A n \in Nodes :
          aborting[n] =>
            /\ aborting'[n]
            /\ abortListeners'[n] = abortListeners[n]
            /\ (Registers /\ LastReg.kind = "abort" /\ LastReg.node = n
                  => LastReg.outcome = "threw")]_vars

\* C16 witness: the parent's abort has fanned out to the child and is over,
\* and a later onAbortRequested on the child threw.
C16_Witness ==
  /\ \E o \in AbortOps("child") : ops[o].origin = "fanout" /\ ops[o].st # "waiting"
  /\ \E i \in 1..Len(regs) :
       /\ regs[i].kind = "abort"
       /\ regs[i].node = "child"
       /\ regs[i].outcome = "threw"

\* C17: once every barge-in sequence on a node is over (the request has been
\* answered, or bargeIn() has returned) the node is idle again: bargingIn is
\* false.
C17_Original ==
  \A n \in Nodes :
    (BargeInOps(n) # {} /\ \A o \in BargeInOps(n) : ops[o].st # "waiting")
      => ~bargingIn[n]

\* C18: a call of onBargeInRequested on a node that is barging in calls the
\* new listener exactly once and leaves the barge-in registry as it was; on
\* a node that is not barging in it adds the listener to the registry and
\* calls nothing.
C18_BargeInRegistration ==
  [][(Registers /\ LastReg.kind = "barge-in") =>
       LET n == LastReg.node
           func == LastReg.func
       IN IF bargingIn[n]
            THEN /\ bargeInListeners' = bargeInListeners
                 /\ invoked' = [invoked EXCEPT ![func] = @ + 1]
            ELSE /\ \E h \in bargeInListeners'[n] \ bargeInListeners[n] :
                      /\ h.func = func
                      /\ bargeInListeners' =
                           [bargeInListeners EXCEPT ![n] = @ \cup {h}]
                 /\ invoked' = invoked]_vars

\* C18 witness: on one node a listener was registered while the node was
\* idle, and after a barge-in started another call invoked its listener at
\* once.
C18_Witness ==
  \E i, j \in 1..Len(regs) :
    /\ i < j
    /\ regs[i].node = regs[j].node
    /\ regs[i].kind = "barge-in" /\ regs[i].outcome = "registered"
    /\ regs[j].kind = "barge-in" /\ regs[j].outcome = "invoked"
    /\ bargeInListeners[regs[i].node] # {}

\* C19: the reply to an inbound abort request is sent only when every abort
\* listener of the node has settled.
C19_Original ==
  \A o \in 1..Len(ops) :
    (ops[o].origin = "inbound" /\ ops[o].type = "abort" /\ ops[o].reply # "none")
      => ops[o].running = {}

\* C20: the reply to an inbound barge-in request is barged-in, sent when
\* every barge-in listener has settled, whether or not a listener failed.
C20_Original ==
  \A o \in 1..Len(ops) :
    (ops[o].origin = "inbound" /\ ops[o].type = "barge-in"
       /\ ops[o].reply # "none")
      => (ops[o].reply = "barged-in" /\ ops[o].running = {})

(***************************************************************************)
(* Properties of the control protocol, checked on ControlSpec and          *)
(* AbortSpec.                                                              *)
(***************************************************************************)
\* C21: every inbound control request whose handling has ended was answered
\* with a reply (pong, aborted, barged-in, hydrated or error), and no
\* exception left the message callback.
C21_Original ==
  \A o \in 1..Len(ops) :
    (ops[o].origin = "inbound" /\ ops[o].st # "waiting")
      => (ops[o].reply # "none" /\ ~ops[o].escaped)

HydrateOps(n) ==
  {o \in 1..Len(ops) : ops[o].node = n /\ ops[o].type = "hydrate"}

\* C22: hydrating is true only while a hydrate request is being handled:
\* on a node where no hydrate operation is under way the flag is false.
C22_Original ==
  \A n \in Nodes :
    hydrating[n] => \E o \in HydrateOps(n) : ops[o].st = "waiting"

\* the descendants of n whose init() has succeeded along the whole chain
RECURSIVE Descendants(_)
Descendants(n) ==
  UNION {{c} \cup Descendants(c) : c \in {x \in Children(n) : linked[x] = "yes"}}

\* C23: cancellation fans out through the parent links.  From the moment
\* an abort is started at a node, hence before it replies, every
\* initialized descendant is aborting and an abort of its own has called all
\* of its abort listeners; from the moment a barge-in is started at a node
\* every initialized descendant is barging in.
C23_FanOut ==
  \A o \in 1..Len(ops) : \A d \in Descendants(ops[o].node) :
    /\ ops[o].type = "abort" =>
         /\ aborting[d]
         /\ \E o2 \in AbortOps(d) :
              {h.id : h \in abortListeners[d]} \subseteq ops[o2].called
    /\ ops[o].type = "barge-in" => bargingIn[d]

\* C23 witness: an abort request at the parent has been answered aborted
\* after the child and the grandchild, both initialized, ran their own
\* abort, the grandchild's calling a listener registered with it.
C23_Witness ==
  /\ Descendants("parent") = {"child", "grandchild"}
  /\ \E o \in AbortOps("parent") :
       /\ ops[o].origin = "inbound"
       /\ ops[o].reply = "aborted"
       /\ \E o2 \in AbortOps("grandchild") :
            /\ o2 > o
            /\ ops[o2].origin = "fanout"
            /\ ops[o2].called # {}
            /\ ops[o2].st = "done"

(***************************************************************************)
(* Properties of the AbortRequestor, checked on RequestorSpec.             *)
(***************************************************************************)
\* C24: every send whose request was handed to the transport and that has
\* settled has resolved with the first reply delivered while it was waiting
\* if there was one, and with the timeout result otherwise.
C24_Original ==
  \A i \in 1..Len(rq.sends) :
    rq.sends[i].st = "resolved" =>
      rq.sends[i].value =
        (IF rq.sends[i].first # NoResult THEN rq.sends[i].first
         ELSE TimeoutResult)

(***************************************************************************)
(* Properties of the PostMessageBridge, checked on BridgeSpec.             *)
(***************************************************************************)
\* the origin equals an entry of the list, or is a subdomain of the domain
\* of a wildcard entry
Trusted(allow, origin) ==
  \E i \in 1..Len(allow.v) :
    \/ allow.v[i] = origin
    \/ /\ Len(allow.v[i]) > 2 /\ allow.v[i][1] = "*" /\ allow.v[i][2] = "."
       /\ \E k \in 2..Len(origin) :
            SubSeq(origin, k, Len(origin)) = Tail(allow.v[i])

\* the envelope gets as far as the origin check and carries a message with
\* an id
Answerable ==
  /\ (br.cfg.filterSourceWindow = "false" \/ br.event.fromTarget)
  /\ br.event.hasId
  /\ (br.event.type = "botdojo-rpc" \/ br.event.parses)

C26_Original ==
  (br.op = "send" /\ br.cfg.enableCompression # "false") =>
    IF Len(br.serialized) > ThresholdAsConfigured(br.cfg)
      THEN /\ br.posted[1].type = "botdojo-rpc-compressed"
           /\ decompressMessage(br.posted[1].payload) = br.serialized
      ELSE br.posted[1].type = "botdojo-rpc"

(***************************************************************************)
(* Properties of the callback registry, checked on Spec.                   *)
(***************************************************************************)
\* the registry entries that hold a function: a token's or a named handler's
FunctionEntries(m) == {k \in DOMAIN m : m[k].kind = "func"}

\* C27: an entry of the registry that holds a function stays in it, with
\* the same function, in every step that is not close().
C27_Original ==
  [][closed' = closed =>
       \A k \in FunctionEntries(callbacks) :
         k \in DOMAIN callbacks' /\ callbacks'[k] = callbacks[k]]_vars

\* the sends the broadcaster has started and not yet finished: the calls
\* that wait for a _send of the drain loop or of the direct path
OutstandingSends ==
  {i \in 1..Len(emits) : emits[i].pc \in {"draining", "awaitSend"}}

\* C28: inflightCount is the number of sends started and not yet finished,
\* and so never negative.
C28_Original ==
  /\ inflightCount = Cardinality(OutstandingSends)
  /\ inflightCount >= 0

\* C29: the recursion of the outbound marshaling stops at the depth bound:
\* no call is made with a depth beyond it, and the run never exhausts the
\* call stack, whatever the graph.
C29_Original ==
  /\ trav.st # "overflow"
  /\ \A k \in 1..Len(trav.stack) : trav.stack[k].depth <= DepthLimit + 1

\* the request a step hands to a function, and the default-handler
\* requests whose promise the step resolves
Dispatches == Len(reqs') = Len(reqs) + 1
DefaultResolved ==
  {i \in 1..Len(reqs) :
     reqs[i].k = "default" /\ reqs[i].st = "running"
       /\ reqs'[i].st = "resolved"}
\* the responses the step hands to the transport
NewlySent == {r \in BagToSet(sent') : CopiesIn(r, sent') > CopiesIn(r, sent)}
\* a sendRequest of the caller, waiting for its response
WaitingCall == [IdleCall EXCEPT !.st = "issued"]

\* C30: a request whose functionName is in the registry invokes the entry
\* found there, with the marshaled arguments, and not the default handler;
\* any other request invokes onMessage once; and the default onMessage
\* answers with an unknown-function error on which the caller's
\* completion callback rejects.
C30_Dispatch ==
  [][/\ Dispatches =>
          LET d == reqs'[Len(reqs')]
              fn == d.msg.functionName
          IN /\ \E a \in InboundArgs :
                  d.msg.data = getReceivedProxyObject(d.msg.source, a)
             /\ d.msg.data.e[2] = Obj(<< <<"cb", Stub(d.msg.source,
                                                     Prim("p0.0.cb"))>> >>)
             /\ IF MapHas(callbacks, fn)
                  THEN IF callbacks[fn].kind = "func"
                         THEN /\ d.via = "callback"
                              /\ invocations' = invocations + 1
                         ELSE /\ d.via = "completion"
                              /\ calls'[callbacks[fn].call].responseSent
                              /\ invocations' = invocations
                  ELSE /\ d.via = "onMessage"
                       /\ d.k = onMessage
                       /\ invocations' = invocations + 1
     /\ \A i \in DefaultResolved :
          \E r \in NewlySent :
            /\ r.direction = "response"
            /\ r.id = reqs[i].msg.id
            /\ r.destination = reqs[i].msg.source
            /\ LET arg == getReceivedProxyObject(r.source, r.data)
               IN /\ IsMessageError(arg)
                  /\ GetProp(arg, "message")
                       = Prim("Unknown function " \o reqs[i].msg.functionName)
                  /\ CompletionCallback(WaitingCall, arg).outcome
                       = Rejected(arg)]_vars

\* C30 witness: a request was handed to the handler registered under its
\* name, another to the default handler, and the unknown-function error
\* went back to its sender.
C30_Witness ==
  /\ \E i \in 1..Len(reqs) :
       reqs[i].via = "callback" /\ reqs[i].msg.functionName = HandlerName
  /\ \E i \in 1..Len(reqs) :
       /\ reqs[i].via = "onMessage" /\ reqs[i].k = "default"
       /\ reqs[i].st = "resolved"
       /\ \E r \in BagToSet(sent) :
            r.id = reqs[i].msg.id /\ IsMessageError(r.data)

(***************************************************************************)
(* Token paths, array elements, request/response separation               *)
(***************************************************************************)
\* the object or array that holds the value at pos
OwnerOf(pos) == Sub(mar.data, SubSeq(pos, 1, Len(pos) - 1))

\* C31: in one marshaled payload two distinct function-valued properties
\* get distinct token paths, and the registry entry under the path of each
\* holds that function and its owner.
C31_Original ==
  (mar.op = "out" /\ mar.out.ok /\ mar.depth = 0)
    => \A p \in FnPositions :
         /\ \A q \in FnPositions :
              p # q => PathOf(mar.id, p) # PathOf(mar.id, q)
         /\ MapHas(mar.out.cb, PathOf(mar.id, p))
         /\ mar.out.cb[PathOf(mar.id, p)]
              = FuncEntry(OwnerOf(p), Sub(mar.data, p))

\* C32: a function that is a direct element of an array of the payload is
\* replaced by a token, recorded in the registry under the token's path,
\* and is a stub at the peer; marshaling does not throw for it.
C32_Original ==
  \A pos \in FnPositions :
    (mar.op # "none" /\ mar.depth = 0 /\ OwnerOf(pos).t = "arr")
      => /\ mar.out.ok
         /\ Sub(mar.out.v, pos) = Token(PathOf(mar.id, pos))
         /\ MapHas(mar.out.cb, PathOf(mar.id, pos))
         /\ mar.op \in {"in", "invoke"}
              => Sub(mar.in, pos) = Stub(Me, Prim(PathOf(mar.id, pos)))

\* C33: no inbound request is handed to the completion callback of a
\* pending call, and no pending call is settled by a request.
C33_Original ==
  /\ \A i \in 1..Len(reqs) : reqs[i].via # "completion"
  /\ \A c \in Calls : calls[c].by # "request"

\* C34: once sendRequest has rejected because marshaling, the message
\* constructor or the transport send failed, the registry holds no pending
\* entry for that call.
C34_Original ==
  \A c \in Calls :
    calls[c].by \in {"marshal", "constructor", "send"}
      => ~MapHas(callbacks, calls[c].id)

(***************************************************************************)
(* Replies and requests of the AbortRequestor (RequestorSpec)              *)
(***************************************************************************)
\* the type of the reply a handler sends to a request of the given type
ReplyTo(verb) ==
  CASE verb = "ping" -> "pong"
    [] verb = "abort" -> "aborted"
    [] verb = "barge-in" -> "barged-in"
    [] verb = "hydrate" -> "hydrated"

\* C35: a request resolves only with the timeout result or with the reply
\* to a request of its own type (or the error reply to it), never with the
\* reply to a request of another type.
C35_Original ==
  \A i \in 1..Len(rq.sends) :
    rq.sends[i].st = "resolved"
      => rq.sends[i].value.type
           \in {"timeout", "error", ReplyTo(rq.sends[i].verb)}

(***************************************************************************)
(* Delivery of emitted payloads (SettlingBroadcastSpec)                    *)
(***************************************************************************)
\* emitToAll call i has returned without throwing
Returned(i) == i \in 1..Len(emits) /\ emits[i].pc = "done"
\* how often payload i has been handed to the transport
HandedCount(i) == Cardinality({k \in 1..Len(handed) : handed[k].data = i})

\* C36: no payload is handed to the transport twice, and a payload whose
\* emitToAll call has returned without throwing is eventually handed to
\* the transport.
C36_Original ==
  /\ [](\A i \in 1..MaxEmits : HandedCount(i) <= 1)
  /\ \A i \in 1..MaxEmits : Returned(i) ~> (HandedCount(i) = 1)

(***************************************************************************)
(* What sets aborting (ControlSpec)                                        *)
(***************************************************************************)
\* C37: a request or call whose type is not abort never sets aborting at
\* any node and is not handled as an abort (no abort listener is invoked
\* for it).
C37_Original ==
  [][Len(ops') > Len(ops)
       => LET o == ops'[Len(ops) + 1]
          IN o.msgType # "abort"
               => aborting' = aborting /\ o.type # "abort"]_vars

(***************************************************************************)
(* The origin seen by the message callback (BridgeSpec)                    *)
(***************************************************************************)
\* C38: every RPC message dispatched to the message callback
\* carries the origin of the window event that delivered it, whatever the
\* payload says.
C38_Original ==
  (br.op = "receive" /\ br.delivered) => br.origin = br.event.origin

(***************************************************************************)
(* Initialization of the AbortRequestor's client (RequestorSpec)           *)
(***************************************************************************)
\* the sends whose message was handed to the client
MessageSent ==
  {i \in 1..Len(rq.sends) :
     rq.sends[i].st \in {"pending", "resolved"}
       \/ rq.sends[i].value = Failure("send failed")}

\* C39: while the requestor is open its client is initialized at most
\* once, and exactly once before any message is sent.
C39_Original ==
  ~rq.closed => /\ rq.inits <= 1
                /\ MessageSent # {} => rq.inits = 1

(***************************************************************************)
(* Round trip of plain values (MarshalSpec)                                *)
(***************************************************************************)
\* the payload holds no function and no object without properties
PlainPayload ==
  \A pos \in Positions(mar.data) :
    Sub(mar.data, pos).t # "fn" /\ Sub(mar.data, pos) # Obj(<<>>)

\* C40: a payload without functions and without empty objects is marshaled
\* out without an error and marshaled in at the peer to an equal value.
C40_Original ==
  (mar.op # "none" /\ PlainPayload)
    => /\ mar.out.ok
       /\ mar.op = "in" => mar.in = mar.data

============================================================================
